---- MODULE Spec2Model ----
(***************************************************************************)
(* The single-pass bytecode compiler (src/src/compile.rs), the stack       *)
(* virtual machine (src/src/vm.rs) and the two front ends, run_file and     *)
(* repl (src/src/interp.rs), of the "reel" language.                       *)
(*                                                                         *)
(* A run starts from a token sequence (what TokenStream yields for a       *)
(* source text), compiles it with Compiler::program, loads the chunk into  *)
(* a fresh VirtualMachine and executes it one instruction per step (Spec). *)
(* A session of the REPL compiles and runs one line after the other with   *)
(* one compiler and one VirtualMachine (ReplSpec).                         *)
(* The closing steps of the jumping constructs are applied to bodies as    *)
(* long as a 16-bit offset reaches (JumpSpec), and the scanner             *)
(* (src/src/scan.rs) reads source texts character by character (ScanSpec). *)
(* The older tree-walking front end is modelled too: its evaluator         *)
(* (src/src/environment/environment.rs) runs parsed programs one call of   *)
(* statement or evaluate per step (EvalSpec), and its lexer                *)
(* (src/src/token/lexer.rs) reads source texts token by token (LexSpec).   *)
(***************************************************************************)
EXTENDS Integers, Sequences, FiniteSets, TLC

\* Bounds of the model (not program constants).
MaxSteps == 60
MaxNum == 2         \* numeric literals of generated programs are 0 .. MaxNum

(***************************************************************************)
(* Values: src/src/vm/value.rs, with the Function variant of vm.rs         *)
(* ({chunk, arity, name}).  Num is modelled over the integers.             *)
(***************************************************************************)
Null == [k |-> "Null"]
Void == [k |-> "Void"]     \* a value of the tree-walking evaluator only
Num(x) == [k |-> "Num", n |-> x]
Str(s) == [k |-> "Str", s |-> s]
Bool(b) == [k |-> "Bool", b |-> b]
Function(chunk, arity, name) ==
    [k |-> "Function", chunk |-> chunk, arity |-> arity, name |-> name]
NativeFn(f, arity) == [k |-> "NativeFn", f |-> f, arity |-> arity]

is_truthy(v) ==
    CASE v.k = "Null" -> FALSE
      [] v.k = "Num" -> v.n # 0
      [] v.k = "Str" -> v.s # ""
      [] v.k = "Bool" -> v.b
      [] OTHER -> TRUE

\* Results of fallible value operations: [ok |-> TRUE, val |-> v] or [ok |-> FALSE, err |-> e].
ValOk(v) == [ok |-> TRUE, val |-> v]
ValErr(e) == [ok |-> FALSE, err |-> e]

value_add_numeric(a, b) ==
    IF a.k = "Num" /\ b.k = "Num" THEN ValOk(Num(a.n + b.n))
    ELSE ValErr([e |-> "Binary", op |-> "+", a |-> a, b |-> b])

value_add(a, b) ==
    CASE a.k = "Num" /\ b.k = "Num" -> ValOk(Num(a.n + b.n))
      [] a.k = "Str" /\ b.k = "Str" -> ValOk(Str(a.s \o b.s))
      [] OTHER -> ValErr([e |-> "Binary", op |-> "+", a |-> a, b |-> b])

value_sub(a, b) ==
    IF a.k = "Num" /\ b.k = "Num" THEN ValOk(Num(a.n - b.n))
    ELSE ValErr([e |-> "Binary", op |-> "-", a |-> a, b |-> b])

value_mul(a, b) ==
    IF a.k = "Num" /\ b.k = "Num" THEN ValOk(Num(a.n * b.n))
    ELSE ValErr([e |-> "Binary", op |-> "*", a |-> a, b |-> b])

\* The f64 quotient x / y.  The model's numbers are integers: a quotient that
\* is one is that number; any other (a fraction, an infinity or NaN when y is
\* 0) is a Num that keeps the dividend in n and the divisor in `over`.
Quotient(x, y) ==
    IF y > 0 /\ x % y = 0 THEN Num(x \div y)
    ELSE IF y < 0 /\ x % (0 - y) = 0 THEN Num((0 - x) \div (0 - y))
    ELSE [k |-> "Num", n |-> x, over |-> y]

value_div(a, b) ==
    IF a.k = "Num" /\ b.k = "Num" THEN ValOk(Quotient(a.n, b.n))
    ELSE ValErr([e |-> "Binary", op |-> "/", a |-> a, b |-> b])

value_neg(x) ==
    IF x.k = "Num" THEN ValOk(Num(0 - x.n))
    ELSE ValErr([e |-> "Unary", op |-> "-", x |-> x])

value_not(x) == Bool(~is_truthy(x))

value_eq(a, b) ==
    CASE a.k = "Num" /\ b.k = "Num" -> a.n = b.n
      [] a.k = "Str" /\ b.k = "Str" -> a.s = b.s
      [] a.k = "Bool" /\ b.k = "Bool" -> a.b = b.b
      [] a.k = "Function" /\ b.k = "Function" -> a.chunk = b.chunk /\ a.arity = b.arity
      [] OTHER -> FALSE

\* Option<Ordering>: "None", "Less", "Equal" or "Greater".  The model's strings are
\* "" and one-letter words, ordered by length and then by the letter.
StrRank(s) == CASE s = "" -> 0 [] s = "a" -> 1 [] s = "b" -> 2 [] OTHER -> 3
IntCmp(x, y) == IF x < y THEN "Less" ELSE IF x = y THEN "Equal" ELSE "Greater"
partial_cmp(a, b) ==
    CASE a.k = "Num" /\ b.k = "Num" -> IntCmp(a.n, b.n)
      [] a.k = "Str" /\ b.k = "Str" -> IntCmp(StrRank(a.s), StrRank(b.s))
      [] a.k = "Bool" /\ b.k = "Bool" ->
            IntCmp(IF a.b THEN 1 ELSE 0, IF b.b THEN 1 ELSE 0)
      [] OTHER -> "None"

value_cmp(a, b) ==
    IF partial_cmp(a, b) = "None"
    THEN ValErr([e |-> "Comparison", a |-> a, b |-> b])
    ELSE ValOk(partial_cmp(a, b))

(***************************************************************************)
(* Instructions: src/src/vm.rs, enum Instruction.                          *)
(***************************************************************************)
Push(v) == [op |-> "Push", v |-> v]
GetLocal(i) == [op |-> "GetLocal", i |-> i]
SetLocal(i) == [op |-> "SetLocal", i |-> i]
GetGlobal(n) == [op |-> "GetGlobal", name |-> n]
SetGlobal(n) == [op |-> "SetGlobal", name |-> n]
Jump(d) == [op |-> "Jump", d |-> d]
JumpIfFalse(d) == [op |-> "JumpIfFalse", d |-> d]
JumpIfTrue(d) == [op |-> "JumpIfTrue", d |-> d]
Call(argc) == [op |-> "Call", argc |-> argc]
Op(name) == [op |-> name]

(***************************************************************************)
(* The virtual machine: src/src/vm.rs.                                     *)
(* A VM is the record [globals, stack, ret_channel, frames, loc]; an       *)
(* Option is a sequence of length 0 or 1; a HashMap is a function on the   *)
(* set of its keys.  Every fallible VM operation yields an outcome         *)
(* [vm, err, out]: the VM it leaves, the error it returns (NoErr for Ok,   *)
(* e = "panic" for a Rust panic) and what it wrote to standard output.     *)
(***************************************************************************)
NoErr == [e |-> "none"]
EmptyStack == [e |-> "EmptyStack"]
Ok(vm) == [vm |-> vm, err |-> NoErr, out |-> <<>>]
Fail(vm, err) == [vm |-> vm, err |-> err, out |-> <<>>]
Panic(vm, msg) == [vm |-> vm, err |-> [e |-> "panic", msg |-> msg], out |-> <<>>]

EmptyMap == [n \in {} |-> Null]
insert(map, key, val) ==
    [n \in (DOMAIN map) \cup {key} |-> IF n = key THEN val ELSE map[n]]

Front(s) == SubSeq(s, 1, Len(s) - 1)
Last(s) == s[Len(s)]

CodeLocation_new(chunk) == [chunk |-> chunk, ip |-> 0]
is_at_end(loc) == loc.ip = Len(loc.chunk)

\* A jump that leaves the ip where it is.
jump_nowhere(vm, offset) == Ok(vm)

\* A jump that adds the offset to the index of the jump itself.
jump_from_slot(vm, offset) ==
    IF vm.loc.ip - 1 + offset < 0
    THEN Fail(vm, [e |-> "Conversion"])
    ELSE Ok([vm EXCEPT !.loc.ip = @ - 1 + offset])

\* CodeLocation::jump: the offset is added to the already advanced ip.
jump(vm, offset) ==
    IF vm.loc.ip + offset < 0
    THEN Fail(vm, [e |-> "Conversion"])
    ELSE Ok([vm EXCEPT !.loc.ip = @ + offset])

VirtualMachine_new(chunk) ==
    [globals |-> EmptyMap,
     stack |-> <<Null>>,
     ret_channel |-> <<>>,
     frames |-> <<>>,
     loc |-> CodeLocation_new(chunk)]

pop(vm) ==
    IF Len(vm.stack) = 0
    THEN [ok |-> FALSE, vm |-> vm]
    ELSE [ok |-> TRUE, vm |-> [vm EXCEPT !.stack = Front(@)], val |-> Last(vm.stack)]

push(vm, val) == [vm EXCEPT !.stack = Append(@, val)]

define_nothing(vm, name, val) == vm

define(vm, name, val) == [vm EXCEPT !.globals = insert(@, name, val)]

local_idx_absolute(vm, offset) == offset

local_idx(vm, offset) ==
    offset + (IF Len(vm.frames) = 0 THEN 0 ELSE Last(vm.frames).stack_depth)

change_chunk(vm, chunk) == [vm EXCEPT !.loc = CodeLocation_new(chunk)]

\* src/src/interp/libs.rs: the native callables, by name.
native_call(f, vals) ==
    CASE f = "print" -> [ok |-> TRUE, val |-> Null, out |-> <<vals[1]>>]

load_libraries(vm) == define(vm, "print", NativeFn("print", 1))

equal_op(a, b) == ValOk(Bool(value_eq(a, b)))
less_op(a, b) ==
    IF value_cmp(a, b).ok THEN ValOk(Bool(value_cmp(a, b).val = "Less")) ELSE value_cmp(a, b)
greater_op(a, b) ==
    IF value_cmp(a, b).ok THEN ValOk(Bool(value_cmp(a, b).val = "Greater")) ELSE value_cmp(a, b)

\* What the arm `op` of VirtualMachine::step computes from its operands a and b.
apply_op(op, a, b) ==
    CASE op = "Add" -> value_add(a, b)
      [] op = "Sub" -> value_sub(a, b)
      [] op = "Mul" -> value_mul(a, b)
      [] op = "Div" -> value_div(a, b)
      [] op = "Equal" -> equal_op(a, b)
      [] op = "Less" -> less_op(a, b)
      [] op = "Greater" -> greater_op(a, b)

binary_op_restoring(vm, op) ==
    IF Len(vm.stack) < 2 THEN Fail(vm, EmptyStack)
    ELSE IF ~apply_op(op, vm.stack[Len(vm.stack) - 1], Last(vm.stack)).ok
    THEN Fail(vm, [e |-> "Value",
                   cause |-> apply_op(op, vm.stack[Len(vm.stack) - 1], Last(vm.stack)).err])
    ELSE Ok(push([vm EXCEPT !.stack = SubSeq(@, 1, Len(@) - 2)],
                 apply_op(op, vm.stack[Len(vm.stack) - 1], Last(vm.stack)).val))

\* The arms of VirtualMachine::step that pop b, pop a and push the result.
binary_op(vm, op) ==
    LET pb == pop(vm) IN
    IF ~pb.ok THEN Fail(vm, EmptyStack) ELSE
    LET pa == pop(pb.vm) IN
    IF ~pa.ok THEN Fail(pb.vm, EmptyStack) ELSE
    LET r == apply_op(op, pa.val, pb.val) IN
    IF ~r.ok THEN Fail(pa.vm, [e |-> "Value", cause |-> r.err])
    ELSE Ok(push(pa.vm, r.val))

\* The Call(argc) arm of VirtualMachine::step; vm.loc.ip is already advanced.
call_op_unchecked(vm, argc) ==
    IF Len(vm.stack) - argc - 1 < 0 THEN Panic(vm, "attempt to subtract with overflow")
    ELSE IF vm.stack[Len(vm.stack) - argc].k = "Function"
    THEN Ok([vm EXCEPT !.frames = Append(@, [call_loc |-> vm.loc,
                                             stack_depth |-> Len(vm.stack) - argc - 1]),
                       !.loc = CodeLocation_new(vm.stack[Len(vm.stack) - argc].chunk)])
    ELSE Fail(vm, [e |-> "Value",
                   cause |-> [e |-> "WrongCall", val |-> vm.stack[Len(vm.stack) - argc]]])

call_op_drained(vm, argc) ==
    IF Len(vm.stack) - argc - 1 < 0 THEN Panic(vm, "attempt to subtract with overflow")
    ELSE IF vm.stack[Len(vm.stack) - argc].k = "Function"
    THEN IF argc = vm.stack[Len(vm.stack) - argc].arity
         THEN Ok([vm EXCEPT !.frames = Append(@, [call_loc |-> vm.loc,
                                                  stack_depth |-> Len(vm.stack) - argc - 1]),
                            !.loc = CodeLocation_new(vm.stack[Len(vm.stack) - argc].chunk)])
         ELSE Fail(vm, [e |-> "WrongArgCount",
                        expected |-> vm.stack[Len(vm.stack) - argc].arity, found |-> argc])
    ELSE Fail([vm EXCEPT !.stack = SubSeq(@, 1, Len(@) - argc - 1)],
              [e |-> "Value",
               cause |-> [e |-> "WrongCall", val |-> vm.stack[Len(vm.stack) - argc]]])

call_op(vm, argc) ==
    LET len == Len(vm.stack)
        index == len - argc - 1
    IN
    IF index < 0 THEN Panic(vm, "attempt to subtract with overflow") ELSE
    LET callable == vm.stack[index + 1] IN
    CASE callable.k = "Function" ->
            IF argc = callable.arity
            THEN Ok([vm EXCEPT
                       !.frames = Append(@, [call_loc |-> vm.loc,
                                             stack_depth |-> len - callable.arity - 1]),
                       !.loc = CodeLocation_new(callable.chunk)])
            ELSE Fail(vm, [e |-> "WrongArgCount", expected |-> callable.arity, found |-> argc])
      [] callable.k = "NativeFn" ->
            LET begin == len - callable.arity IN
            IF begin < 0 THEN Panic(vm, "attempt to subtract with overflow") ELSE
            LET r == native_call(callable.f, SubSeq(vm.stack, begin + 1, len)) IN
            IF ~r.ok THEN Fail(vm, [e |-> "Value", cause |-> r.err]) ELSE
            LET drained == SubSeq(vm.stack, 1, begin)
                popped == IF Len(drained) = 0 THEN drained ELSE Front(drained)
            IN [vm |-> [vm EXCEPT !.stack = Append(popped, r.val)],
                err |-> NoErr,
                out |-> r.out]
      [] OTHER -> Fail(vm, [e |-> "Value", cause |-> [e |-> "WrongCall", val |-> callable]])

\* VirtualMachine::step: fetch chunk[ip], advance ip, execute.
step(vm0) ==
    IF vm0.loc.ip >= Len(vm0.loc.chunk) THEN Panic(vm0, "index out of bounds") ELSE
    LET opcode == vm0.loc.chunk[vm0.loc.ip + 1]
        vm == [vm0 EXCEPT !.loc.ip = @ + 1]
    IN
    CASE opcode.op = "Push" -> Ok(push(vm, opcode.v))
      [] opcode.op = "Pop" ->
            IF pop(vm).ok THEN Ok(pop(vm).vm) ELSE Fail(vm, EmptyStack)
      [] opcode.op = "SaveReturn" ->
            IF pop(vm).ok
            THEN Ok([pop(vm).vm EXCEPT !.ret_channel = <<pop(vm).val>>])
            ELSE Fail(vm, EmptyStack)
      [] opcode.op = "RestoreReturn" ->
            IF Len(vm.ret_channel) = 0
            THEN Fail(vm, [e |-> "NoReturnValue"])
            ELSE Ok(push([vm EXCEPT !.ret_channel = <<>>], vm.ret_channel[1]))
      [] opcode.op = "GetGlobal" ->
            IF opcode.name \in DOMAIN vm.globals
            THEN Ok(push(vm, vm.globals[opcode.name]))
            ELSE Fail(vm, [e |-> "UndeclaredGlobal", name |-> opcode.name])
      [] opcode.op = "SetGlobal" ->
            IF Len(vm.stack) = 0 THEN Fail(vm, EmptyStack)
            ELSE Ok(define(vm, opcode.name, Last(vm.stack)))
      [] opcode.op = "GetLocal" ->
            IF local_idx(vm, opcode.i) < Len(vm.stack)
            THEN Ok(push(vm, vm.stack[local_idx(vm, opcode.i) + 1]))
            ELSE Panic(vm, "Tried to get nonexistent variable!")
      [] opcode.op = "SetLocal" ->
            IF Len(vm.stack) = 0 THEN Fail(vm, EmptyStack)
            ELSE IF local_idx(vm, opcode.i) < Len(vm.stack)
            THEN Ok([vm EXCEPT !.stack[local_idx(vm, opcode.i) + 1] = Last(vm.stack)])
            ELSE Panic(vm, "index out of bounds")
      [] opcode.op = "Jump" -> jump(vm, opcode.d)
      [] opcode.op = "JumpIfFalse" ->
            IF Len(vm.stack) = 0 THEN Fail(vm, EmptyStack)
            ELSE IF ~is_truthy(Last(vm.stack)) THEN jump(vm, opcode.d) ELSE Ok(vm)
      [] opcode.op = "JumpIfTrue" ->
            IF Len(vm.stack) = 0 THEN Fail(vm, EmptyStack)
            ELSE IF is_truthy(Last(vm.stack)) THEN jump(vm, opcode.d) ELSE Ok(vm)
      [] opcode.op = "Call" -> call_op(vm, opcode.argc)
      [] opcode.op = "Ret" ->
            IF Len(vm.frames) = 0 THEN Fail(vm, EmptyStack)
            ELSE Ok([vm EXCEPT !.loc = Last(vm.frames).call_loc, !.frames = Front(@)])
      [] opcode.op = "Add" -> binary_op(vm, "Add")
      [] opcode.op = "Sub" -> binary_op(vm, "Sub")
      [] opcode.op = "Mul" -> binary_op(vm, "Mul")
      [] opcode.op = "Div" -> binary_op(vm, "Div")
      [] opcode.op = "Neg" ->
            IF ~pop(vm).ok THEN Fail(vm, EmptyStack)
            ELSE IF ~value_neg(pop(vm).val).ok
            THEN Fail(pop(vm).vm, [e |-> "Value", cause |-> value_neg(pop(vm).val).err])
            ELSE Ok(push(pop(vm).vm, value_neg(pop(vm).val).val))
      [] opcode.op = "Not" ->
            IF ~pop(vm).ok THEN Fail(vm, EmptyStack)
            ELSE Ok(push(pop(vm).vm, value_not(pop(vm).val)))
      [] opcode.op = "Equal" -> binary_op(vm, "Equal")
      [] opcode.op = "Less" -> binary_op(vm, "Less")
      [] opcode.op = "Greater" -> binary_op(vm, "Greater")
      [] opcode.op = "Temp" ->
            Panic(vm, "Error during compilation: tried executing temporary instruction!")

(***************************************************************************)
(* The compiler: src/src/compile.rs.                                       *)
(* A compilation state p is the Compiler (locals, instrs) together with    *)
(* the peekable token iterator it reads (toks, pos), the token last        *)
(* returned by advance (tok), the error that ended the compilation (err,   *)
(* NoErr while it is running; every `?` of the source is a test of err),   *)
(* and two fields that only record where constructs were compiled to:      *)
(* marks (positions in the instruction buffer being filled) and notes      *)
(* (the marks of finished chunks, each with its chunk).                    *)
(***************************************************************************)
U16Max == 65535
I16Max == 32767

Tok(t) == [ttype |-> t]
Literal(v) == [ttype |-> "Literal", v |-> v]
Identifier(name) == [ttype |-> "Identifier", name |-> name]

EndOfInput == [e |-> "EndOfInput"]
Mismatch(found) == [e |-> "Mismatch", found |-> found.ttype]
Failed(p) == ~p.ok
CFail(p, err) == [p EXCEPT !.err = err, !.ok = FALSE]

vm_owned == [name |-> "", index |-> 0]

Compiler_new_unreserved(toks) ==
    [toks |-> toks, pos |-> 0,
     locals |-> <<>>, instrs |-> <<>>,
     err |-> NoErr, ok |-> TRUE, tok |-> Tok("None"), val |-> Null, argc |-> 0,
     marks |-> <<>>, notes |-> <<>>]

Compiler_new(toks) ==
    [toks |-> toks, pos |-> 0,
     locals |-> <<vm_owned>>, instrs |-> <<>>,
     err |-> NoErr, ok |-> TRUE, tok |-> Tok("None"), val |-> Null, argc |-> 0,
     marks |-> <<>>, notes |-> <<>>]

\* peek: the type of the next token, "None" at the end of the input, "ScanError"
\* for an item of the stream that is an error (peek(it)? then fails with Scan).
peek(p) == IF p.pos < Len(p.toks) THEN p.toks[p.pos + 1].ttype ELSE "None"
ScanFail(p) == CFail(p, [e |-> "Scan"])

advance(p) ==
    IF p.pos >= Len(p.toks) THEN CFail(p, EndOfInput)
    ELSE IF p.toks[p.pos + 1].ttype = "ScanError"
    THEN [ScanFail(p) EXCEPT !.pos = @ + 1]
    ELSE [p EXCEPT !.pos = @ + 1, !.tok = p.toks[p.pos + 1]]

emit(p, instr) == [p EXCEPT !.instrs = Append(@, instr)]

AddMark(p, m) == [p EXCEPT !.marks = Append(@, m)]

\* Compiler::instructions takes the buffer; the taken chunk is p.instrs of the
\* state before.  The marks of the buffer become notes of that chunk.
instructions(p) ==
    [p EXCEPT !.instrs = <<>>,
              !.marks = <<>>,
              !.notes = @ \o [i \in 1 .. Len(p.marks) |->
                                 [chunk |-> p.instrs, m |-> p.marks[i]]]]

declare_local(p, name) ==
    IF Len(p.locals) > U16Max THEN CFail(p, [e |-> "Conversion"])
    ELSE [p EXCEPT !.locals = Append(@, [name |-> name, index |-> Len(p.locals)])]

\* Option<u16> as a sequence of length 0 or 1.
find_local(locals, name) ==
    LET S == {i \in 1 .. Len(locals) : locals[i].name = name} IN
    IF S = {} THEN <<>>
    ELSE <<locals[CHOOSE i \in S : \A j \in S : j <= i].index>>

stub_jump(p) == emit(p, Op("Temp"))

\* A patch that writes the distance from the instruction after dst.
patch_jump_short(p, src, dst, f) ==
    [p EXCEPT !.instrs[src + 1] = [op |-> f, d |-> dst - src - 1]]

\* A patch that makes every jump return to its own instruction.
patch_jump_self(p, src, dst, f) ==
    [p EXCEPT !.instrs[src + 1] = [op |-> f, d |-> 0 - 1]]

patch_jump(p, src, dst, f) ==
    IF dst - src < 0 THEN CFail(p, [e |-> "panic", msg |-> "attempt to subtract with overflow"])
    ELSE IF dst - src > I16Max
    THEN CFail(p, [e |-> "panic", msg |-> "Loop code too big to fit into VM register"])
    ELSE [p EXCEPT !.instrs[src + 1] = CASE f = "Jump" -> Jump(dst - src)
                                         [] f = "JumpIfFalse" -> JumpIfFalse(dst - src)
                                         [] f = "JumpIfTrue" -> JumpIfTrue(dst - src)]

Pops(n) == [i \in 1 .. n |-> Op("Pop")]

close_scope_unsaved(p, num_locals) ==
    [p EXCEPT !.instrs = (@ \o Pops(num_locals)) \o <<Op("RestoreReturn")>>,
              !.locals = SubSeq(@, 1, IF Len(p.locals) >= num_locals
                                      THEN Len(p.locals) - num_locals ELSE 0)]

close_scope(p, num_locals) ==
    LET final_len == IF Len(p.locals) >= num_locals THEN Len(p.locals) - num_locals ELSE 0
    IN [p EXCEPT !.instrs = (Append(@, Op("SaveReturn")) \o Pops(num_locals))
                                \o <<Op("RestoreReturn")>>,
                 !.locals = SubSeq(@, 1, final_len)]

\* Then(p, F) is `let p1 = p?; F(p1)`: a failed compilation is returned as it is.
Then(p, F(_)) == IF p.ok THEN F(p) ELSE p
With(v, F(_)) == F(v)

\* The grammar is recursive through declaration, expression and block.
RECURSIVE declaration(_)
RECURSIVE expression(_)
RECURSIVE block(_)

RECURSIVE program(_)
program(p) ==
    IF p.ok
    THEN IF peek(p) = "ScanError" THEN ScanFail(p)
         ELSE IF peek(p) = "None" THEN p
         ELSE Then(declaration(p), LAMBDA p1 :
              IF peek(p1) = "ScanError" THEN ScanFail(p1)
              ELSE IF peek(p1) # "None" THEN program(emit(p1, Op("Pop")))
              ELSE program(p1))
    ELSE p

\* Compiler::args: the argument count is left in p.argc.
RECURSIVE args_loop(_)
args_loop(p) ==
    IF peek(p) = "ScanError" THEN ScanFail(p)
    ELSE IF peek(p) = "Comma"
    THEN Then(expression(advance(p)), LAMBDA p1 :
         args_loop([p1 EXCEPT !.argc = p.argc + 1]))
    ELSE Then(advance(p), LAMBDA p1 :
         IF p1.tok.ttype = "RightParen" THEN [p1 EXCEPT !.argc = p.argc]
         ELSE CFail(p1, Mismatch(p1.tok)))

args(p) ==
    Then(advance(p), LAMBDA p1 :    \* Skip LeftParen
    IF peek(p1) = "ScanError" THEN ScanFail(p1)
    ELSE IF peek(p1) = "RightParen" THEN [advance(p1) EXCEPT !.argc = 0]
    ELSE Then(expression(p1), LAMBDA p2 : args_loop([p2 EXCEPT !.argc = 1])))

\* Compiler::params: the arity is left in p.argc.
RECURSIVE params_loop(_)
params_loop(p) ==
    IF peek(p) = "ScanError" THEN ScanFail(p)
    ELSE IF peek(p) = "Comma"
    THEN Then(advance(advance(p)), LAMBDA p1 :
         IF p1.tok.ttype = "Identifier"
         THEN Then(declare_local(p1, p1.tok.name), LAMBDA p2 :
              params_loop(AddMark([p2 EXCEPT !.argc = p.argc + 1],
                                  [kind |-> "param", name |-> p1.tok.name,
                                   idx |-> Len(p1.locals)])))
         ELSE CFail(p1, Mismatch(p1.tok)))
    ELSE Then(advance(p), LAMBDA p1 :
         IF p1.tok.ttype = "RightParen" THEN p1
         ELSE CFail(p1, Mismatch(p1.tok)))

params(p) ==
    Then(advance(p), LAMBDA p1 :
    IF p1.tok.ttype # "LeftParen" THEN CFail(p1, Mismatch(p1.tok))
    ELSE Then(advance(p1), LAMBDA p2 :
         IF p2.tok.ttype = "RightParen" THEN [p2 EXCEPT !.argc = 0]
         ELSE IF p2.tok.ttype = "Identifier"
         THEN Then(declare_local(p2, p2.tok.name), LAMBDA p3 :
              params_loop(AddMark([p3 EXCEPT !.argc = 1],
                                  [kind |-> "param", name |-> p2.tok.name,
                                   idx |-> Len(p2.locals)])))
         ELSE CFail(p2, Mismatch(p2.tok))))

\* advance, then fail with Mismatch on the token found (EndOfInput if none).
Unexpected(p) == Then(advance(p), LAMBDA p1 : CFail(p1, Mismatch(p1.tok)))

\* Compiler::function, run on the fresh compiler of fn_expr: the Function value
\* is left in p.val.
function(p, name) ==
    Then(params(p), LAMBDA p1 :
    Then(IF peek(p1) = "ScanError" THEN ScanFail(p1)
         ELSE IF peek(p1) = "Arrow" THEN expression(advance(p1))
         ELSE IF peek(p1) = "LeftBracket" THEN block(p1)
         ELSE IF peek(p1) = "None" THEN CFail(p1, EndOfInput)
         ELSE Unexpected(p1), LAMBDA p2 :
    With(emit(close_scope(p2, Len(p2.locals)), Op("Ret")), LAMBDA p3 :
    [instructions(p3) EXCEPT !.val = Function(p3.instrs, p1.argc, name)])))

\* The fresh compiler of fn_expr reads the same token iterator; when it is done,
\* the enclosing compiler (locals, instrs) goes on.
FnCompiler_shared(p) == [p EXCEPT !.instrs = <<>>, !.marks = <<>>]

FnCompiler(p) == [p EXCEPT !.locals = <<vm_owned>>, !.instrs = <<>>, !.marks = <<>>]
Resume(f, p) == [f EXCEPT !.locals = p.locals, !.instrs = p.instrs, !.marks = p.marks]

\* A named fn that is pushed and not bound.
fn_expr_unbound(p) ==
    With(advance(p), LAMBDA p1 :
    IF peek(p1) = "ScanError" THEN ScanFail(p1)
    ELSE IF peek(p1) = "Identifier"
    THEN With(advance(p1), LAMBDA p2 :
         With(Resume(function(FnCompiler(p2), <<p2.tok.name>>), p2), LAMBDA f :
         IF f.ok
         THEN AddMark(emit(f, Push(f.val)),
                      [kind |-> "fn", at |-> Len(f.instrs), fname |-> <<p2.tok.name>>,
                       hi |-> Len(f.instrs) + 1])
         ELSE f))
    ELSE With(Resume(function(FnCompiler(p1), <<>>), p1), LAMBDA f :
         IF f.ok
         THEN AddMark(emit(f, Push(f.val)),
                      [kind |-> "fn", at |-> Len(f.instrs), fname |-> <<>>,
                       hi |-> Len(f.instrs) + 1])
         ELSE f))

fn_expr(p) ==
    With(advance(p), LAMBDA p1 :    \* Skip Fn
    IF peek(p1) = "ScanError" THEN ScanFail(p1)
    ELSE IF peek(p1) = "Identifier"
    THEN With(advance(p1), LAMBDA p2 :
         With(Resume(function(FnCompiler(p2), <<p2.tok.name>>), p2), LAMBDA f :
         IF f.ok
         THEN AddMark(emit(emit(f, Push(f.val)), SetGlobal(p2.tok.name)),
                      [kind |-> "fn", at |-> Len(f.instrs), fname |-> <<p2.tok.name>>,
                       hi |-> Len(f.instrs) + 2])
         ELSE f))
    ELSE With(Resume(function(FnCompiler(p1), <<>>), p1), LAMBDA f :
         IF f.ok
         THEN AddMark(emit(f, Push(f.val)),
                      [kind |-> "fn", at |-> Len(f.instrs), fname |-> <<>>,
                       hi |-> Len(f.instrs) + 1])
         ELSE f))

\* The match on find_local of Compiler::variable: access is "Get" or "Set".
Access(p, ident, access) ==
    IF find_local(p.locals, ident) # <<>>
    THEN emit(p, IF access = "Get" THEN GetLocal(find_local(p.locals, ident)[1])
                 ELSE SetLocal(find_local(p.locals, ident)[1]))
    ELSE emit(p, IF access = "Get" THEN GetGlobal(ident) ELSE SetGlobal(ident))

variable(p) ==
    With(advance(p), LAMBDA p1 :
    IF peek(p1) = "ScanError" THEN ScanFail(p1)
    ELSE IF peek(p1) = "Equal"
    THEN Then(expression(advance(p1)), LAMBDA p2 :
         AddMark(Access(p2, p1.tok.name, "Set"),
                 [kind |-> "assign", lo |-> Len(p1.instrs), at |-> Len(p2.instrs),
                  name |-> p1.tok.name]))
    ELSE AddMark(Access(p1, p1.tok.name, "Get"),
                 [kind |-> "var", at |-> Len(p1.instrs), name |-> p1.tok.name]))

\* The two patch_jump calls that end Compiler::if_expr.
if_close_else_only(p, jump_idx, jump_else_idx) ==
    patch_jump(p, jump_else_idx, Len(p.instrs) - 1, "Jump")

if_close(p, jump_idx, jump_else_idx) ==
    Then(patch_jump(p, jump_else_idx, Len(p.instrs) - 1, "Jump"), LAMBDA p6 :
    patch_jump(p6, jump_idx, jump_else_idx, "JumpIfFalse"))

if_expr(p) ==
    Then(expression(advance(p)), LAMBDA p1 :    \* Skip If; condition
    With(emit(stub_jump(p1), Op("Pop")), LAMBDA p2 :    \* jump_idx = Len(p1.instrs)
    Then(IF peek(p2) = "ScanError" THEN ScanFail(p2)
         ELSE IF peek(p2) = "None" THEN CFail(p2, EndOfInput)
         ELSE IF peek(p2) = "Then" THEN expression(advance(p2))
         ELSE IF peek(p2) = "LeftBracket" THEN block(p2)
         ELSE Unexpected(p2), LAMBDA p3 :
    With(emit(stub_jump(p3), Op("Pop")), LAMBDA p4 :    \* jump_else_idx = Len(p3.instrs)
    Then(IF peek(p4) = "ScanError" THEN ScanFail(p4)
         ELSE IF peek(p4) = "Else" THEN expression(advance(p4))
         ELSE emit(p4, Push(Null)), LAMBDA p5 :
    Then(if_close(p5, Len(p1.instrs), Len(p3.instrs)), LAMBDA p7 :
    AddMark(p7, [kind |-> "if", jump |-> Len(p1.instrs), jump_else |-> Len(p3.instrs),
                 hi |-> Len(p7.instrs), has_else |-> peek(p4) = "Else"])))))))

NegJump(d) == Jump(0 - d)

\* The end of Compiler::while_expr, after the block: loop_len, the backward
\* Jump, the patch of the forward JumpIfFalse and the last Pop.
while_close(p, loop_idx, jump_idx) ==
    IF Len(p.instrs) - (loop_idx - 1) > I16Max   \* loop_len
    THEN CFail(p, [e |-> "panic", msg |-> "Loop code too big to fit into VM register"])
    ELSE
    With(emit(p, NegJump(Len(p.instrs) - (loop_idx - 1))), LAMBDA p4 :
    Then(patch_jump(p4, jump_idx, Len(p4.instrs) - 1, "JumpIfFalse"), LAMBDA p5 :
    emit(p5, Op("Pop"))))

while_expr(p) ==
    With(emit(advance(p), Push(Null)), LAMBDA pn :      \* Skip While; loop_idx = Len(pn.instrs)
    Then(expression(pn), LAMBDA p1 :            \* Condition; jump_idx = Len(p1.instrs)
    With(emit(emit(stub_jump(p1), Op("Pop")), Op("Pop")), LAMBDA p2 :
    Then(IF peek(p2) = "ScanError" THEN ScanFail(p2)
         ELSE IF peek(p2) = "None" THEN CFail(p2, EndOfInput)
         ELSE IF peek(p2) = "LeftBracket" THEN block(p2)
         ELSE Unexpected(p2), LAMBDA p3 :
    Then(while_close(p3, Len(pn.instrs), Len(p1.instrs)), LAMBDA p5 :
    AddMark(p5,
            [kind |-> "while", start |-> Len(pn.instrs) - 1, loop |-> Len(pn.instrs),
             jump |-> Len(p1.instrs), back |-> Len(p3.instrs),
             hi |-> Len(p5.instrs)]))))))

grouping(p) ==
    Then(expression(advance(p)), LAMBDA p1 :    \* Skip LeftParen
    Then(advance(p1), LAMBDA p2 :
    IF p2.tok.ttype = "RightParen"
    THEN Then(advance(p2), LAMBDA p3 :
         AddMark(p3, [kind |-> "group", lo |-> Len(p.instrs), hi |-> Len(p3.instrs),
                      open |-> p.pos + 1, close |-> p2.pos, next |-> p3.pos]))
    ELSE CFail(p2, Mismatch(p2.tok))))

primary(p) ==
    CASE peek(p) = "ScanError" -> ScanFail(p)
      [] peek(p) = "None" -> CFail(p, EndOfInput)
      [] peek(p) = "LeftParen" -> grouping(p)
      [] peek(p) = "LeftBracket" -> block(p)
      [] peek(p) = "If" -> if_expr(p)
      [] peek(p) = "While" -> while_expr(p)
      [] peek(p) = "Function" -> fn_expr(p)
      [] peek(p) = "Identifier" -> variable(p)
      [] peek(p) = "Literal" -> With(advance(p), LAMBDA p1 : emit(p1, Push(p1.tok.v)))
      [] OTHER -> Unexpected(p)

RECURSIVE call_loop(_)
call_loop(p) ==
    IF p.ok
    THEN IF peek(p) = "ScanError" THEN ScanFail(p)
         ELSE IF peek(p) = "LeftParen"
         THEN Then(args(p), LAMBDA p1 : call_loop(emit(p1, Call(p1.argc))))
         ELSE p
    ELSE p

call(p) == call_loop(primary(p))

RECURSIVE unary(_)
unary(p) ==
    CASE peek(p) = "ScanError" -> ScanFail(p)
      [] peek(p) = "Minus" ->
            Then(unary(advance(p)), LAMBDA p1 : emit(p1, Op("Neg")))
      [] peek(p) \in {"Not", "Bang"} ->
            Then(unary(advance(p)), LAMBDA p1 : emit(p1, Op("Not")))
      [] OTHER -> call(p)

\* multiplication, addition, comparison, equality, and, or: each compiles an
\* operand with the method below it and then runs its loop.  They are levels 1
\* to 6 of climb, defined after the loops: climb(p, n) compiles a unary and runs
\* the loops of levels 1 to n on it, in that order.
RECURSIVE climb(_, _)
multiplication(p) == climb(p, 1)
addition(p) == climb(p, 2)
comparison(p) == climb(p, 3)
equality(p) == climb(p, 4)
and(p) == climb(p, 5)
or(p) == climb(p, 6)

RECURSIVE multiplication_loop(_)
multiplication_loop(p) ==
    IF p.ok
    THEN IF peek(p) = "ScanError" THEN ScanFail(p)
         ELSE IF peek(p) \in {"Star", "Slash"}
         THEN Then(unary(advance(p)), LAMBDA p1 :
              multiplication_loop(emit(p1, IF peek(p) = "Star" THEN Op("Mul") ELSE Op("Div"))))
         ELSE p
    ELSE p

RECURSIVE addition_loop(_)
addition_loop(p) ==
    IF p.ok
    THEN IF peek(p) = "ScanError" THEN ScanFail(p)
         ELSE IF peek(p) \in {"Plus", "Minus"}
         THEN Then(multiplication(advance(p)), LAMBDA p1 :
              addition_loop(emit(p1, IF peek(p) = "Plus" THEN Op("Add") ELSE Op("Sub"))))
         ELSE p
    ELSE p

\* emit(instr), and Not after it when the operator is the negated one.
EmitNot(p, instr, negated) == IF negated THEN emit(emit(p, instr), Op("Not")) ELSE emit(p, instr)

RECURSIVE comparison_loop(_)
comparison_loop(p) ==
    IF p.ok
    THEN IF peek(p) = "ScanError" THEN ScanFail(p)
         ELSE IF peek(p) \in {"Less", "GreaterEqual"}
         THEN Then(addition(advance(p)), LAMBDA p1 :
              comparison_loop(EmitNot(p1, Op("Less"), peek(p) = "GreaterEqual")))
         ELSE IF peek(p) \in {"Greater", "LessEqual"}
         THEN Then(addition(advance(p)), LAMBDA p1 :
              comparison_loop(EmitNot(p1, Op("Greater"), peek(p) = "LessEqual")))
         ELSE p
    ELSE p

RECURSIVE equality_loop(_)
equality_loop(p) ==
    IF p.ok
    THEN IF peek(p) = "ScanError" THEN ScanFail(p)
         ELSE IF peek(p) \in {"EqualEqual", "BangEqual"}
         THEN Then(comparison(advance(p)), LAMBDA p1 :
              equality_loop(EmitNot(p1, Op("Equal"), peek(p) = "BangEqual")))
         ELSE p
    ELSE p

RECURSIVE and_loop(_)
and_loop(p) ==
    IF p.ok
    THEN IF peek(p) = "ScanError" THEN ScanFail(p)
         ELSE IF peek(p) = "And"     \* jump_idx = Len(p.instrs)
         THEN Then(equality(emit(stub_jump(advance(p)), Op("Pop"))), LAMBDA p1 :
              Then(patch_jump(p1, Len(p.instrs), Len(p1.instrs) - 1, "JumpIfFalse"), LAMBDA p2 :
              and_loop(AddMark(p2, [kind |-> "and", jump |-> Len(p.instrs),
                                    hi |-> Len(p2.instrs)]))))
         ELSE p
    ELSE p

RECURSIVE or_loop(_)
or_loop(p) ==
    IF p.ok
    THEN IF peek(p) = "ScanError" THEN ScanFail(p)
         ELSE IF peek(p) = "Or"      \* jump_idx = Len(p.instrs)
         THEN Then(and(emit(stub_jump(advance(p)), Op("Pop"))), LAMBDA p1 :
              Then(patch_jump(p1, Len(p.instrs), Len(p1.instrs) - 1, "JumpIfTrue"), LAMBDA p2 :
              or_loop(AddMark(p2, [kind |-> "or", jump |-> Len(p.instrs),
                                   hi |-> Len(p2.instrs)]))))
         ELSE p
    ELSE p

\* The loop of the method of level k.
loop(k, p) ==
    CASE k = 1 -> multiplication_loop(p)
      [] k = 2 -> addition_loop(p)
      [] k = 3 -> comparison_loop(p)
      [] k = 4 -> equality_loop(p)
      [] k = 5 -> and_loop(p)
      [] k = 6 -> or_loop(p)

\* The loops of levels k to n, run in that order on the operand compiled so far.
RECURSIVE loops(_, _, _)
loops(p, k, n) ==
    IF p.ok
    THEN IF k > n THEN p ELSE loops(loop(k, p), k + 1, n)
    ELSE p

climb(p, n) == loops(unary(p), 1, n)

expression(p) == or(p)

local(p) ==
    Then(advance(advance(p)), LAMBDA p1 :   \* Skip Let; found = p1.tok
    IF p1.tok.ttype # "Identifier" THEN CFail(p1, Mismatch(p1.tok))
    ELSE Then(advance(p1), LAMBDA p2 :
         IF p2.tok.ttype # "Equal" THEN CFail(p2, Mismatch(p2.tok))
         ELSE Then(expression(p2), LAMBDA p3 :
              Then(declare_local(p3, p1.tok.name), LAMBDA p4 :
              AddMark(emit(p4, GetLocal(Last(p4.locals).index)),
                      [kind |-> "let", at |-> Len(p4.instrs),
                       idx |-> Last(p4.locals).index, name |-> p1.tok.name])))))

global(p) ==
    Then(advance(advance(p)), LAMBDA p1 :   \* Skip Global; found = p1.tok
    IF p1.tok.ttype # "Identifier" THEN CFail(p1, Mismatch(p1.tok))
    ELSE Then(advance(p1), LAMBDA p2 :
         IF p2.tok.ttype # "Equal" THEN CFail(p2, Mismatch(p2.tok))
         ELSE Then(expression(p2), LAMBDA p3 :
              emit(p3, SetGlobal(p1.tok.name)))))

declaration(p) ==
    CASE peek(p) = "ScanError" -> ScanFail(p)
      [] peek(p) = "Let" -> local(p)
      [] peek(p) = "Global" -> global(p)
      [] OTHER -> expression(p)

RECURSIVE block_loop(_)
block_loop(p) ==
    Then(declaration(p), LAMBDA p1 :
    IF peek(p1) = "ScanError" THEN ScanFail(p1)
    ELSE IF peek(p1) = "RightBracket" THEN advance(p1)
    ELSE block_loop(emit(p1, Op("Pop"))))

block(p) ==
    Then(advance(p), LAMBDA p1 :    \* Skip LeftBracket; frame_start = Len(p1.locals)
    IF peek(p1) = "ScanError" THEN ScanFail(p1)
    ELSE IF peek(p1) = "RightBracket" THEN advance(p1)
    ELSE Then(block_loop(p1), LAMBDA p2 :
         With(close_scope(p2, Len(p2.locals) - Len(p1.locals)), LAMBDA p3 :
         AddMark(p3, [kind |-> "block", lo |-> Len(p1.instrs), save |-> Len(p2.instrs),
                      hi |-> Len(p3.instrs), restored |-> p3.locals = p1.locals]))))

(***************************************************************************)
(* Source programs, as the token sequences TokenStream yields for them.    *)
(***************************************************************************)
Id(n) == Identifier(n)
N(x) == Literal(Num(x))

S(x) == Literal(Str(x))

\* Literal tokens, and the smallest expressions: a literal, the empty block, the
\* global `print` that load_libraries defines, a global nothing defines.
Lits == {N(i) : i \in 0 .. MaxNum} \cup {S(""), S("a"), Literal(Null), Literal(Bool(TRUE)), Literal(Bool(FALSE))}
EmptyBlock == <<Tok("LeftBracket"), Tok("RightBracket")>>
Atoms == {<<l>> : l \in Lits} \cup {EmptyBlock, <<Id("print")>>, <<Id("g")>>}
\* Conditions and operands of the larger programs.
Few == {<<N(0)>>, <<N(1)>>, <<S("a")>>, <<Literal(Null)>>, EmptyBlock}

BinOps == {"Plus", "Minus", "Star", "Less", "Greater", "LessEqual", "GreaterEqual",
           "EqualEqual", "BangEqual"}

Blk(body) == (<<Tok("LeftBracket")>> \o body) \o <<Tok("RightBracket")>>
Let(x, e) == <<Tok("Let"), Id(x), Tok("Equal")>> \o e
Assign(x, e) == <<Id(x), Tok("Equal")>> \o e
CallOf(f, argv) == ((f \o <<Tok("LeftParen")>>) \o argv) \o <<Tok("RightParen")>>
Dec(x) == <<Id(x), Tok("Equal"), Id(x), Tok("Minus"), N(1)>>

\* Expressions over atoms: operators, and/or, if, while, blocks, calls.
SimpleExprs ==
    Atoms
    \cup {<<Tok("Minus")>> \o a : a \in Atoms} \cup {<<Tok("Not")>> \o a : a \in Atoms}
    \cup {(a \o <<Tok(o)>>) \o b : a \in Few, b \in Few, o \in BinOps}
    \cup {(a \o <<Tok("And")>>) \o b : a \in Atoms, b \in Atoms}
    \cup {(a \o <<Tok("Or")>>) \o b : a \in Atoms, b \in Atoms}
    \cup {((<<Tok("If")>> \o c) \o <<Tok("Then")>>) \o a : c \in Atoms, a \in Few}
    \cup {((((<<Tok("If")>> \o c) \o <<Tok("Then")>>) \o a) \o <<Tok("Else")>>) \o b :
             c \in Atoms, a \in Few, b \in Few}
    \cup {(((<<Tok("If")>> \o c) \o Blk(a)) \o <<Tok("Else")>>) \o b : c \in Few, a \in Few, b \in Few}
    \cup {(<<Tok("If")>> \o c) \o EmptyBlock : c \in Few}
    \cup {(<<Tok("While")>> \o c) \o Blk(a) : c \in Few, a \in Few}
    \cup {(<<Tok("While")>> \o c) \o EmptyBlock : c \in Few}
    \cup {Blk(a) : a \in Atoms} \cup {Blk(a \o b) : a \in Few, b \in Few}
    \cup {Blk(Let("x", a) \o <<Id("x")>>) : a \in Atoms}
    \cup {Blk(Let("x", a)) : a \in Few}
    \cup {Blk((Let("x", a) \o Assign("x", b)) \o <<Id("x")>>) : a \in Few, b \in Few}
    \cup {CallOf(f, <<>>) : f \in Atoms}
    \cup {CallOf(f, a) : f \in Atoms, a \in Few}
    \cup {CallOf(f, (a \o <<Tok("Comma")>>) \o b) : f \in {<<Id("print")>>, <<N(1)>>}, a \in Few, b \in Few}

\* Right operands with an effect: a native call, a global write, a function
\* definition (a named fn writes the global of its name).
Effects ==
    {CallOf(<<Id("print")>>, <<N(1)>>), Assign("g", <<N(1)>>),
     <<Tok("Function"), Id("g"), Tok("LeftParen"), Tok("RightParen"), Tok("Arrow"), N(1)>>}

\* and/or: chains, mixtures, operands with effects, operands that write a local.
ShortCircuitExprs ==
    {(((a \o <<Tok(o1)>>) \o b) \o <<Tok(o2)>>) \o c :
         a \in Few, b \in Few, c \in Few, o1 \in {"And", "Or"}, o2 \in {"And", "Or"}}
    \cup {(a \o <<Tok(o)>>) \o e : a \in Atoms, e \in Effects, o \in {"And", "Or"}}
    \cup {(e \o <<Tok(o)>>) \o a : a \in Few, e \in Effects, o \in {"And", "Or"}}
    \cup {Blk((Let("x", <<N(0)>>) \o ((a \o <<Tok(o)>>) \o Assign("x", <<N(1)>>)))
              \o <<Id("x")>>) : a \in Few, o \in {"And", "Or"}}
    \cup {<<Tok("If")>> \o a \o <<Tok(o)>> \o b \o <<Tok("Then"), N(1), Tok("Else"), N(2)>> :
             a \in Few, b \in Few, o \in {"And", "Or"}}

\* Loops that end: a counter counted down to 0 by the body or by the condition.
LoopExprs ==
    {Blk(Let("i", <<N(k)>>) \o ((<<Tok("While"), Id("i")>> \o Blk(Dec("i") \o t)))) :
         k \in 0 .. MaxNum, t \in {<<>>, <<N(1)>>, <<S("a")>>, EmptyBlock}}
    \cup {Blk(Let("i", <<N(k)>>) \o ((<<Tok("While")>> \o Dec("i")) \o Blk(t))) :
         k \in 1 .. MaxNum, t \in {<<N(1)>>, <<Id("i")>>}}
    \cup {Blk(Let("i", <<N(k)>>) \o ((<<Tok("While")>> \o Dec("i")) \o EmptyBlock)) :
         k \in 1 .. MaxNum}
    \cup {Blk((Let("i", <<N(k)>>) \o Let("s", <<N(0)>>))
              \o ((<<Tok("While"), Id("i")>> \o
                   Blk(Assign("s", <<Id("s"), Tok("Plus"), Id("i")>>) \o Dec("i")))
                  \o <<Id("s")>>)) : k \in 0 .. MaxNum}
    \cup {Blk(Let("i", <<N(k)>>) \o
              (<<Tok("While"), Id("i")>> \o
               Blk((<<Tok("While"), N(0)>> \o EmptyBlock) \o Dec("i")))) :
         k \in 0 .. MaxNum}
    \cup {(a \o <<Tok("Plus")>>) \o
          Blk(Let("i", <<N(k)>>) \o ((<<Tok("While")>> \o Dec("i")) \o Blk(<<N(1)>>))) :
         k \in 1 .. MaxNum, a \in {<<N(1)>>}}

\* Blocks with locals where temporaries are on the stack: as the right operand of
\* `+` and as a call argument.
OperandLetExprs ==
    {(a \o <<Tok("Plus")>>) \o Blk(Let("x", b) \o <<Id("x")>>) : a \in Few, b \in Few}
    \cup {CallOf(<<Id("print")>>, Blk(Let("x", b) \o <<Id("x")>>)) : b \in Few}
    \cup {CallOf(<<Id("print")>>, (a \o <<Tok("Comma")>>) \o Blk(Let("x", b) \o <<Id("x")>>)) :
             a \in Few, b \in Few}

\* Function definitions and calls: immediate, named, nested, recursive, with a
\* wrong argument count, with an empty body.
FnId == <<Tok("Function"), Tok("LeftParen"), Id("a"), Tok("RightParen")>> \o Blk(<<Id("a")>>)
FnAdd == <<Tok("Function"), Tok("LeftParen"), Id("a"), Tok("Comma"), Id("b"), Tok("RightParen"), Tok("Arrow"), Id("a"), Tok("Plus"), Id("b")>>
FnLet == <<Tok("Function"), Tok("LeftParen"), Id("a"), Tok("RightParen")>> \o Blk(Let("y", <<Id("a")>>) \o <<Id("y"), Tok("Plus"), N(1)>>)
FnEmpty == <<Tok("Function"), Tok("LeftParen"), Tok("RightParen")>> \o EmptyBlock
FnConst == <<Tok("Function"), Tok("LeftParen"), Tok("RightParen")>> \o Blk(<<N(1)>>)
FnRec ==
    <<Tok("Function"), Id("f"), Tok("LeftParen"), Id("n"), Tok("RightParen")>>
    \o Blk(<<Tok("If"), Id("n"), Tok("Then")>> \o
           (CallOf(<<Id("f")>>, <<Id("n"), Tok("Minus"), N(1)>>) \o <<Tok("Else"), N(0)>>))
FnOuter ==
    <<Tok("Function"), Id("h"), Tok("LeftParen"), Id("a"), Tok("RightParen")>>
    \o Blk(<<N(1), Tok("Plus")>> \o CallOf(<<Id("f")>>, <<Id("a")>>))
Named(f, def) == <<Tok("Global"), Id(f), Tok("Equal")>> \o def

CallExprs ==
    {CallOf(FnId, a) : a \in Atoms}
    \cup {CallOf(FnId, <<>>), CallOf(FnId, <<N(1), Tok("Comma"), N(2)>>),
          CallOf(FnEmpty, <<>>), CallOf(FnConst, <<>>), CallOf(FnConst, <<N(1)>>)}
    \cup {CallOf(FnLet, a) : a \in Few}
    \cup {(<<N(1), Tok("Plus")>> \o CallOf(FnId, a)) : a \in Few}
    \cup {(<<N(1), Tok("Plus")>> \o CallOf(FnEmpty, <<>>)), (<<N(1), Tok("Plus")>> \o CallOf(FnLet, <<N(1)>>))}
    \cup {CallOf(FnId, CallOf(FnId, a)) : a \in Few}
    \cup {CallOf(FnId, CallOf(FnConst, <<>>)), CallOf(FnId, CallOf(FnEmpty, <<>>))}

CallPrograms ==
    {Named("f", FnAdd) \o CallOf(<<Id("f")>>, (a \o <<Tok("Comma")>>) \o b) : a \in Few, b \in Few}
    \cup {Named("f", FnAdd) \o CallOf(<<Id("f")>>, a) : a \in Few}
    \cup {FnRec \o CallOf(<<Id("f")>>, <<N(k)>>) : k \in 0 .. MaxNum}
    \cup {(Named("f", FnId) \o FnOuter) \o CallOf(<<Id("h")>>, <<N(k)>>) : k \in 0 .. MaxNum}
    \cup {(Named("f", FnEmpty) \o CallOf(<<Id("f")>>, <<>>)),
          (Named("f", FnConst) \o (CallOf(<<Id("f")>>, <<>>) \o CallOf(<<Id("f")>>, <<>>)))}
    \cup {(Let("x", <<N(k)>>) \o Named("f", FnLet)) \o CallOf(<<Id("f")>>, <<Id("x")>>) :
             k \in 0 .. MaxNum}

\* Programs of one to three declarations.
Decls ==
    {Let("x", <<N(1)>>), Let("y", <<S("a")>>), Named("g", <<N(2)>>), <<N(0)>>, <<Id("x")>>,
     Blk(<<N(1)>>), EmptyBlock, Assign("x", <<N(2)>>)}
DeclPrograms ==
    Decls \cup {a \o b : a \in Decls, b \in Decls}
          \cup {(a \o b) \o c : a \in Decls, b \in Decls, c \in Decls}

\* let x = a  let x = b  x, and { let x = a { let x = b } x }: at the top level, in
\* a block, as the right operand of `+`, as a call argument.  expect is b, or a.
Twice(a, b) == (Let("x", a) \o Let("x", b)) \o <<Id("x")>>
Inner(a, b) == Blk((Let("x", a) \o Blk(Let("x", b))) \o <<Id("x")>>)
ShadowLits == {N(i) : i \in 1 .. MaxNum} \cup {S("a")}
ShadowPrograms ==
    {[toks |-> Twice(<<a>>, <<b>>), fam |-> "shadow", expect |-> b.v] :
         a \in ShadowLits, b \in ShadowLits}
    \cup {[toks |-> Blk(Twice(<<a>>, <<b>>)), fam |-> "shadow", expect |-> b.v] :
         a \in ShadowLits, b \in ShadowLits}
    \cup {[toks |-> Inner(<<a>>, <<b>>), fam |-> "shadow", expect |-> a.v] :
         a \in ShadowLits, b \in ShadowLits}
    \cup {[toks |-> <<S(""), Tok("Or")>> \o Blk(Twice(<<a>>, <<b>>)), fam |-> "shadow",
           expect |-> b.v] : a \in ShadowLits, b \in ShadowLits}
    \cup {[toks |-> <<S(""), Tok("Plus")>> \o Blk(Twice(<<S("a")>>, <<S("b")>>)), fam |-> "shadow",
           expect |-> Str("b")],
          [toks |-> <<S(""), Tok("Plus")>> \o Inner(<<S("a")>>, <<S("b")>>), fam |-> "shadow",
           expect |-> Str("a")],
          [toks |-> CallOf(FnId, Blk(Twice(<<N(1)>>, <<N(2)>>))), fam |-> "shadow",
           expect |-> Num(2)],
          [toks |-> CallOf(FnId, Inner(<<N(1)>>, <<N(2)>>)), fam |-> "shadow",
           expect |-> Num(1)]}

\* Assignments to a global and to a local, of literals and of the empty block,
\* and to a local of a block that is an operand.
AssignExprs ==
    {Assign("g", a) : a \in Few}
    \cup {Blk(Let("x", a) \o Assign("x", b)) : a \in Few, b \in Few}
    \cup {(<<N(1), Tok("Plus")>> \o Blk(Let("x", <<N(2)>>) \o Assign("x", <<N(0)>>)))}

\* Functions that name globals, called before and after the global is defined
\* or reassigned, and references to a global that was never defined.
FnG == <<Tok("Function"), Tok("LeftParen"), Tok("RightParen"), Tok("Arrow"), Id("g")>>
GlobalPrograms ==
    {(Named("f", FnG) \o Named("g", <<a>>)) \o CallOf(<<Id("f")>>, <<>>) : a \in Lits}
    \cup {((Named("f", FnG) \o Named("g", <<a>>)) \o CallOf(<<Id("f")>>, <<>>)) \o <<Id("h")>> :
             a \in Lits}
    \cup {((Named("g", a) \o Named("f", FnG)) \o (CallOf(<<Id("f")>>, <<>>) \o Assign("g", b)))
             \o CallOf(<<Id("f")>>, <<>>) : a \in Few, b \in Few}
    \cup {Named("f", FnG) \o CallOf(<<Id("f")>>, <<>>),
          <<Id("g")>>, <<N(1), Tok("Plus"), Id("g")>>, Blk(Let("x", <<N(1)>>) \o <<Id("g")>>)}

\* Calls of values that are not callable, with and without arguments.
WrongCallExprs ==
    {CallOf(<<l>>, a) : l \in Lits, a \in {<<>>, <<N(1)>>, <<N(1), Tok("Comma"), S("a")>>}}
    \cup {(<<N(1), Tok("Plus")>> \o CallOf(<<l>>, <<N(2)>>)) : l \in Lits}
    \cup {CallOf(FnId, CallOf(<<l>>, <<>>)) : l \in Lits}
    \cup {Named("f", FnId) \o CallOf(<<Id("f")>>, CallOf(<<Id("f")>>, <<>>)),
          (Named("f", FnId)
           \o Named("h", <<Tok("Function"), Tok("LeftParen"), Tok("RightParen"), Tok("Arrow")>>
                         \o CallOf(<<Id("f")>>, <<>>)))
            \o CallOf(<<Id("h")>>, <<>>),
          Named("f", <<Tok("Function"), Tok("LeftParen"), Id("a"), Tok("RightParen"),
                       Tok("Arrow")>> \o CallOf(<<Id("a")>>, <<>>))
            \o CallOf(<<Id("f")>>, <<N(1)>>)}

\* Calls of a function that assigns its parameter, above temporaries.
FnSetA == <<Tok("Function"), Tok("LeftParen"), Id("a"), Tok("RightParen")>>
          \o Blk(<<Id("a"), Tok("Equal"), Id("a"), Tok("Plus"), N(1)>>)
FrameLocalExprs ==
    {CallOf(FnSetA, <<N(k)>>) : k \in 0 .. MaxNum}
    \cup {(<<N(1), Tok("Plus")>> \o CallOf(FnSetA, <<N(k)>>)) : k \in 0 .. MaxNum}

\* Functions that name x and are defined or called where a local x is in scope.
FnAX == <<Tok("Function"), Tok("LeftParen"), Id("a"), Tok("RightParen"), Tok("Arrow"),
         Id("a"), Tok("Plus"), Id("x")>>
FnSetX == <<Tok("Function"), Tok("LeftParen"), Id("a"), Tok("RightParen"), Tok("Arrow"),
           Id("x"), Tok("Equal"), Id("a")>>
ClosurePrograms ==
    {((Named("x", <<N(1)>>) \o Named("f", FnAX)) \o CallOf(<<Id("f")>>, <<N(1)>>))
        \o Blk(Let("x", <<N(k)>>) \o CallOf(<<Id("f")>>, <<N(1)>>)) : k \in 0 .. MaxNum}
    \cup {(Named("x", <<N(1)>>)
           \o Blk((Let("x", <<N(k)>>) \o Assign("f", FnAX)) \o CallOf(<<Id("f")>>, <<N(1)>>)))
          \o CallOf(<<Id("f")>>, <<N(1)>>) : k \in 0 .. MaxNum}
    \cup {Blk((Let("x", <<N(k)>>) \o Assign("f", FnAX)) \o CallOf(<<Id("f")>>, <<N(1)>>)) :
             k \in 0 .. MaxNum}
    \cup {Blk(((Let("x", <<N(k)>>) \o Assign("f", FnSetX)) \o CallOf(<<Id("f")>>, <<N(1)>>))
              \o <<Id("x")>>) : k \in 0 .. MaxNum}
    \cup {Blk((Let("a", <<N(k)>>) \o Assign("f", FnId)) \o CallOf(<<Id("f")>>, <<N(1)>>)) :
             k \in 0 .. MaxNum}

\* Parenthesised expressions, alone, as an operand and at the end of the input,
\* with the value the source text denotes.
Paren(e) == (<<Tok("LeftParen")>> \o e) \o <<Tok("RightParen")>>
GroupPrograms ==
    {[toks |-> Paren(<<l>>), fam |-> "group", expect |-> l.v] : l \in Lits}
    \cup {[toks |-> Paren(Paren(<<l>>)), fam |-> "group", expect |-> l.v] : l \in Lits}
    \cup {[toks |-> Paren(<<N(1), Tok("Plus"), N(2)>>) \o <<Tok("Star"), N(i)>>,
           fam |-> "group", expect |-> Num(3 * i)] : i \in 0 .. MaxNum}
    \cup {[toks |-> Paren(<<N(i)>>) \o <<Tok("Plus"), N(1)>>,
           fam |-> "group", expect |-> Num(i + 1)] : i \in 0 .. MaxNum}
    \cup {[toks |-> <<N(i), Tok("Minus")>> \o Paren(<<N(1), Tok("Minus"), N(1)>>),
           fam |-> "group", expect |-> Num(i)] : i \in 0 .. MaxNum}
    \cup {[toks |-> Blk(Paren(<<N(i)>>)), fam |-> "group", expect |-> Num(i)] :
             i \in 0 .. MaxNum}

\* An input is a token sequence with the family it was generated in: "expr" (the
\* whole text is one expression), "decls" (a sequence of declarations), "shadow".
\* One binary operator between two literals, of every pair of types.
LitOps == {<<l, Tok(o), m>> : l \in Lits, m \in Lits, o \in BinOps \cup {"Slash"}}

Exprs == LitOps \cup SimpleExprs \cup ShortCircuitExprs \cup LoopExprs \cup OperandLetExprs \cup CallExprs
           \cup AssignExprs
Programs ==
    {[toks |-> t, fam |-> "expr", expect |-> Null] : t \in Exprs}
    \cup {[toks |-> t, fam |-> "decls", expect |-> Null] : t \in CallPrograms \cup DeclPrograms}
    \cup ShadowPrograms
    \cup GroupPrograms
    \cup {[toks |-> t, fam |-> "globals", expect |-> Null] : t \in GlobalPrograms \cup ClosurePrograms \cup WrongCallExprs
                                                                 \cup FrameLocalExprs}

(***************************************************************************)
(* The scanner: src/src/scan.rs.  A source text is a sequence of           *)
(* characters, each a one-character string; a TokenStream is the text not  *)
(* yet read (unread) and the offset of its first character (pos).  The     *)
(* characters of the model are ASCII: the digits, the lowercase letters,   *)
(* the underscore, white space and punctuation.                            *)
(***************************************************************************)
DigitChars == <<"0", "1", "2", "3", "4", "5", "6", "7", "8", "9">>
Letters == {"a", "b", "c", "d", "e", "f", "g", "h", "i", "j", "k", "l", "m",
            "n", "o", "p", "q", "r", "s", "t", "u", "v", "w", "x", "y", "z"}
is_whitespace(c) == c \in {" ", "\n", "\t", "\r"}
is_numeric(c) == c \in {DigitChars[i] : i \in 1 .. 10}
is_alphabetic(c) == c \in Letters
is_alphanumeric(c) == is_alphabetic(c) \/ is_numeric(c)

\* The string of a sequence of characters.
RECURSIVE Lexeme(_)
Lexeme(cs) == IF cs = <<>> THEN "" ELSE cs[1] \o Lexeme(Tail(cs))

\* str::parse::<f64> on digits with an optional `.` and digits after it (what
\* num_literal passes to it; on ASCII digits it cannot fail): the number
\* written, as the quotient of its digits by the power of ten of its fraction.
DigitVal(c) == (CHOOSE i \in 1 .. 10 : DigitChars[i] = c) - 1
RECURSIVE Decimal(_)
Decimal(ds) == IF ds = <<>> THEN 0 ELSE 10 * Decimal(SubSeq(ds, 1, Len(ds) - 1)) + DigitVal(ds[Len(ds)])
RECURSIVE Pow10(_)
Pow10(n) == IF n = 0 THEN 1 ELSE 10 * Pow10(n - 1)
parse_f64(cs) ==
    Quotient(Decimal(SelectSeq(cs, is_numeric)),
             Pow10(IF \E i \in 1 .. Len(cs) : cs[i] = "."
                   THEN Len(cs) - (CHOOSE i \in 1 .. Len(cs) : cs[i] = ".")
                   ELSE 0))

TokenStream_new(s) == [unread |-> s, pos |-> 0]

\* Option<char>: the next character, "None" when nothing is unread.
TokenStream_peek(ts) == IF ts.unread = <<>> THEN "None" ELSE ts.unread[1]

\* Every call in the source has cnt <= unread.len().
TokenStream_advance(ts, cnt) ==
    [unread |-> SubSeq(ts.unread, cnt + 1, Len(ts.unread)), pos |-> ts.pos + cnt]

\* The number of leading characters of s that satisfy pattern.
LeadingWhile(s, pattern(_)) ==
    IF \A i \in 1 .. Len(s) : pattern(s[i]) THEN Len(s)
    ELSE (CHOOSE i \in 1 .. Len(s) : ~pattern(s[i]) /\ \A j \in 1 .. i - 1 : pattern(s[j])) - 1
TokenStream_advance_while(ts, pattern(_)) ==
    TokenStream_advance(ts, LeadingWhile(ts.unread, pattern))

\* The result of a scanning method: the stream after it and Ok(ttype) or Err(kind).
ScanOk(ts, tok) == [ts |-> ts, ok |-> TRUE, tok |-> tok]
ScanErr(ts, kind) == [ts |-> ts, ok |-> FALSE, kind |-> kind]

num_literal_end(ts) ==
    IF TokenStream_peek(TokenStream_advance_while(ts, is_numeric)) = "."
    THEN TokenStream_advance_while(
             TokenStream_advance(TokenStream_advance_while(ts, is_numeric), 1), is_numeric)
    ELSE TokenStream_advance_while(ts, is_numeric)
num_literal(ts) ==
    ScanOk(num_literal_end(ts),
           Literal(parse_f64(SubSeq(ts.unread, 1, num_literal_end(ts).pos - ts.pos))))

\* Called with the opening quote consumed.
str_literal(ts) ==
    LET t1 == TokenStream_advance_while(ts, LAMBDA c : c # "\"") IN
    IF TokenStream_peek(t1) = "\""
    THEN ScanOk(TokenStream_advance(t1, 1),
                Literal(Str(Lexeme(SubSeq(ts.unread, 1, t1.pos - ts.pos)))))
    ELSE ScanErr(t1, "UnmatchedQuote")

\* Called with `/*` consumed.  x is the character peeked before the advance:
\* the one advance_while stopped at.
RECURSIVE skip_block_comment(_)
skip_block_comment(ts) ==
    LET t1 == TokenStream_advance_while(ts, LAMBDA c : c # "*")
        x == TokenStream_peek(t1)
    IN
    IF x = "None" THEN [ts |-> t1, ok |-> FALSE, kind |-> "UnmatchedComment"]
    ELSE IF x = "/"
    THEN [ts |-> TokenStream_advance(TokenStream_advance(t1, 1), 1), ok |-> TRUE]
    ELSE skip_block_comment(TokenStream_advance(t1, 1))

keyword(s) ==
    CASE s = "let" -> Tok("Let")
      [] s = "global" -> Tok("Global")
      [] s = "if" -> Tok("If")
      [] s = "then" -> Tok("Then")
      [] s = "else" -> Tok("Else")
      [] s = "while" -> Tok("While")
      [] s = "fn" -> Tok("Function")
      [] s = "and" -> Tok("And")
      [] s = "or" -> Tok("Or")
      [] s = "not" -> Tok("Not")
      [] s = "true" -> Literal(Bool(TRUE))
      [] s = "false" -> Literal(Bool(FALSE))
      [] s = "null" -> Literal(Null)
      [] OTHER -> Identifier(s)

\* The arms of `match c` that look one character ahead for `second`.
TwoChar(ts, second, two, one) ==
    IF TokenStream_peek(ts) = second
    THEN ScanOk(TokenStream_advance(ts, 1), Tok(two))
    ELSE ScanOk(ts, Tok(one))

\* The arms of `match c` other than '/', with c consumed.
punctuation(ts, c) ==
    CASE c = "\"" -> str_literal(ts)
      [] c = "+" -> ScanOk(ts, Tok("Plus"))
      [] c = "," -> ScanOk(ts, Tok("Comma"))
      [] c = "-" -> TwoChar(ts, ">", "Arrow", "Minus")
      [] c = "*" -> ScanOk(ts, Tok("Star"))
      [] c = "(" -> ScanOk(ts, Tok("LeftParen"))
      [] c = ")" -> ScanOk(ts, Tok("RightParen"))
      [] c = "{" -> ScanOk(ts, Tok("LeftBracket"))
      [] c = "}" -> ScanOk(ts, Tok("RightBracket"))
      [] c = "=" -> TwoChar(ts, "=", "EqualEqual", "Equal")
      [] c = "!" -> TwoChar(ts, "=", "BangEqual", "Bang")
      [] c = ">" -> TwoChar(ts, "=", "GreaterEqual", "Greater")
      [] c = "<" -> TwoChar(ts, "=", "LessEqual", "Less")
      [] OTHER -> ScanErr(ts, "Unrecognized")

\* Some(Ok(Token)) or Some(Err(Error)) with the location offset .. r.ts.pos.
Item(offset, r) ==
    [ts |-> r.ts,
     item |-> IF r.ok
              THEN [some |-> TRUE, ok |-> TRUE, tok |-> r.tok,
                    loc |-> [offset |-> offset, len |-> r.ts.pos - offset]]
              ELSE [some |-> TRUE, ok |-> FALSE, kind |-> r.kind,
                    loc |-> [offset |-> offset, len |-> r.ts.pos - offset]]]

\* Iterator::next of TokenStream: the stream after the call and the item returned.
RECURSIVE TokenStream_next(_)
TokenStream_next(ts) ==
    LET t0 == TokenStream_advance_while(ts, is_whitespace)
        c == TokenStream_peek(t0)
        t1 == TokenStream_advance(t0, 1)
    IN
    IF c = "None" THEN [ts |-> t0, item |-> [some |-> FALSE]]
    ELSE IF is_numeric(c) THEN Item(t0.pos, num_literal(t0))
    ELSE IF is_alphabetic(c) \/ c = "_"
    THEN Item(t0.pos,
              LET t2 == TokenStream_advance_while(t0, LAMBDA d : is_alphanumeric(d) \/ d = "_")
              IN ScanOk(t2, keyword(Lexeme(SubSeq(t0.unread, 1, t2.pos - t0.pos)))))
    ELSE IF c = "/"
    THEN IF TokenStream_peek(t1) = "/"
         THEN TokenStream_next(TokenStream_advance_while(t1, LAMBDA d : d # "\n"))
         ELSE IF TokenStream_peek(t1) = "*"
         THEN IF skip_block_comment(TokenStream_advance(t1, 1)).ok
              THEN TokenStream_next(skip_block_comment(TokenStream_advance(t1, 1)).ts)
              ELSE Item(t0.pos, skip_block_comment(TokenStream_advance(t1, 1)))
         ELSE Item(t0.pos, ScanOk(t1, Tok("Slash")))
    ELSE Item(t0.pos, punctuation(t1, c))

(***************************************************************************)
(* The lexer of the tree-walking front end: src/src/token/lexer.rs.  A     *)
(* Lexer is the text not yet read (unread) and the location (row, col) of  *)
(* its first character; a Token is a Kind with the location of the lexer   *)
(* when the token was made.                                                *)
(***************************************************************************)
Lexer_new(line) == [unread |-> line, loc |-> <<1, 1>>]

\* The location after the characters cs, starting from loc.
RECURSIVE LocAfter(_, _)
LocAfter(loc, cs) ==
    IF cs = <<>> THEN loc
    ELSE LocAfter(IF cs[1] = "\n" THEN <<loc[1] + 1, 1>> ELSE <<loc[1], loc[2] + 1>>, Tail(cs))

\* Called with count <= unread.len() wherever it does not panic.
Lexer_advance(lx, count) ==
    [unread |-> SubSeq(lx.unread, count + 1, Len(lx.unread)),
     loc |-> LocAfter(lx.loc, SubSeq(lx.unread, 1, count))]

\* The index advance_while stops at: that of the first character that fails
\* the predicate, and 0 (unwrap_or((0, '\0'))) when every character passes.
StopIndex(cs, predicate(_)) ==
    IF LeadingWhile(cs, predicate) = Len(cs) THEN 0 ELSE LeadingWhile(cs, predicate)
\* The lexer after advance_while; the slice it returns is the text consumed.
Lexer_advance_while(lx, predicate(_)) == Lexer_advance(lx, StopIndex(lx.unread, predicate))
Consumed(lx, after) == SubSeq(lx.unread, 1, Len(lx.unread) - Len(after.unread))

\* match_char returns whether it advanced.
Lexer_match_char(lx, c) ==
    IF lx.unread # <<>> /\ lx.unread[1] = c THEN Lexer_advance(lx, 1) ELSE lx

token_from(lx, kind) == [kind |-> kind, loc |-> lx.loc]
LexSome(lx, kind) == [lx |-> lx, item |-> [opt |-> "Some", tok |-> token_from(lx, kind)]]
LexNone(lx) == [lx |-> lx, item |-> [opt |-> "None"]]
\* A slice past the end of unread.
LexPanic(lx) == [lx |-> lx, item |-> [opt |-> "Panic"]]

\* The numeric arm of next: i is the end of the slice handed to parse::<f64>.
\* k digits lead; the first cs.next() takes the character after them, the
\* second the one after that, and only if that one is `.` the digits after it
\* are skipped as well.
number_end(cs) ==
    LET k == LeadingWhile(cs, is_numeric) IN
    IF k = Len(cs) THEN 0
    ELSE IF k + 2 <= Len(cs) /\ cs[k + 2] = "."
    THEN LET m == k + 2 + LeadingWhile(SubSeq(cs, k + 3, Len(cs)), is_numeric)
         IN IF m = Len(cs) THEN 0 ELSE m
    ELSE k
\* s.parse::<f64>().ok(): Some for digits alone; None for the empty slice and
\* for digits, another character, `.` and digits.
lex_number(lx) ==
    LET i == number_end(lx.unread) IN
    IF i # 0 /\ \A j \in 1 .. i : is_numeric(lx.unread[j])
    THEN LexSome(Lexer_advance(lx, i), Literal(parse_f64(SubSeq(lx.unread, 1, i))))
    ELSE LexNone(Lexer_advance(lx, i))

\* The arm `match s` of next for the identifier or keyword s.
lex_keyword(s) ==
    CASE s = "let" -> Tok("Let")
      [] s = "fn" -> Tok("Fn")
      [] s = "if" -> Tok("If")
      [] s = "else" -> Tok("Else")
      [] s = "while" -> Tok("While")
      [] s = "and" -> Tok("And")
      [] s = "or" -> Tok("Or")
      [] s = "return" -> Tok("Return")
      [] s = "true" -> Literal(Bool(TRUE))
      [] s = "false" -> Literal(Bool(TRUE))
      [] s = "void" -> Literal(Void)
      [] OTHER -> Identifier(s)

\* The arms of `match c` that try match_char('=').
LexTwo(lx, two, one) ==
    IF Lexer_match_char(lx, "=") # lx THEN LexSome(Lexer_match_char(lx, "="), Tok(two))
    ELSE LexSome(lx, Tok(one))

\* The string arm, with the opening quote consumed: the text up to the next
\* quote, and advance(1) for the quote.
lex_string(lx) ==
    LET closed == Lexer_advance_while(lx, LAMBDA d : d # "\"") IN
    IF closed.unread = <<>> THEN LexPanic(closed)
    ELSE LexSome(Lexer_advance(closed, 1), Literal(Str(Lexeme(Consumed(lx, closed)))))

\* The arms of `match c` other than '/', with c consumed.
lex_punctuation(lx, c) ==
    CASE c = "," -> LexSome(lx, Tok("Comma"))
      [] c = ";" -> LexSome(lx, Tok("Semicolon"))
      [] c = "\"" -> lex_string(lx)
      [] c = "+" -> LexSome(lx, Tok("Plus"))
      [] c = "-" -> LexSome(lx, Tok("Minus"))
      [] c = "*" -> LexSome(lx, Tok("Star"))
      [] c = "!" -> LexTwo(lx, "BangEqual", "Bang")
      [] c = "=" -> LexTwo(lx, "EqualEqual", "Equal")
      [] c = ">" -> LexTwo(lx, "GreaterEqual", "Greater")
      [] c = "<" -> LexTwo(lx, "LessEqual", "Less")
      [] c = "(" -> LexSome(lx, Tok("LeftParen"))
      [] c = ")" -> LexSome(lx, Tok("RightParen"))
      [] c = "[" -> LexSome(lx, Tok("LeftBracket"))
      [] c = "]" -> LexSome(lx, Tok("RightBracket"))
      [] c = "{" -> LexSome(lx, Tok("LeftBrace"))
      [] c = "}" -> LexSome(lx, Tok("RightBrace"))
      [] OTHER -> LexNone(lx)

\* Iterator::next of Lexer: the lexer after the call and the item returned.
RECURSIVE Lexer_next(_)
Lexer_next(lx) ==
    LET l0 == Lexer_advance_while(lx, is_whitespace)
        l1 == Lexer_advance(l0, 1)
        word == Lexer_advance_while(l0, LAMBDA d : is_alphanumeric(d) \/ d = "_")
    IN
    IF l0.unread = <<>> THEN LexNone(l0)
    ELSE IF is_numeric(l0.unread[1]) THEN lex_number(l0)
    ELSE IF is_alphabetic(l0.unread[1]) \/ l0.unread[1] = "_"
    THEN LexSome(word, lex_keyword(Lexeme(Consumed(l0, word))))
    ELSE IF l0.unread[1] = "/"
    THEN IF Lexer_match_char(l1, "/") # l1
         THEN Lexer_next(Lexer_advance_while(Lexer_match_char(l1, "/"), LAMBDA d : d # "\n"))
         ELSE LexSome(l1, Tok("Slash"))
    ELSE lex_punctuation(l1, l0.unread[1])

(***************************************************************************)
(* The tree-walking evaluator: src/src/environment/environment.rs          *)
(* (src/src/interpreter/interpreter.rs has the same statement and          *)
(* evaluate).  Statements and expressions are the trees of stmt.rs and     *)
(* expr.rs.  The recursion of statement and evaluate is kept as a stack    *)
(* of tasks (ctl): a call of statement or evaluate still to be made, or    *)
(* the rest of an arm after the call it made has returned; values          *)
(* returned by evaluate wait in vals.  Scopes are numbered: a ScopeHandle  *)
(* is the index of a scope in scopes, parent 0 is None.                    *)
(***************************************************************************)
UserFn(closure, ps, body) ==
    [k |-> "Fn", closure |-> closure, params |-> ps, body |-> body]

ELit(v) == [e |-> "Literal", v |-> v]
EVar(n) == [e |-> "Variable", name |-> n]
ECall(callee, argv) == [e |-> "Call", callee |-> callee, args |-> argv]
EAssign(n, val) == [e |-> "Assignment", name |-> n, val |-> val]

SVarDecl(n, init) == [s |-> "VarDecl", name |-> n, init |-> init]
SFnDecl(n, ps, body) == [s |-> "FnDecl", name |-> n, params |-> ps, body |-> body]
SIf(cond, succ, fail) == [s |-> "If", cond |-> cond, succ |-> succ, fail |-> fail]
SWhile(cond, stmt) == [s |-> "While", cond |-> cond, stmt |-> stmt]
SReturn(opt) == [s |-> "Return", expr |-> opt]
SExpression(x) == [s |-> "Expression", expr |-> x]
SBlock(stmts) == [s |-> "Block", stmts |-> stmts]

\* Value::is_truthy of value.rs: Ok(bool), or WrongType for the other values.
value_truthy(v) ==
    CASE v.k = "Num" -> ValOk(v.n # 0)
      [] v.k = "Str" -> ValOk(v.s # "")
      [] v.k = "Bool" -> ValOk(v.b)
      [] OTHER -> ValErr([e |-> "WrongType", v |-> v])

Scope_from(parent) == [def |-> EmptyMap, parent |-> parent]
RECURSIVE Scope_get(_, _, _)
Scope_get(scopes, h, name) ==
    IF name \in DOMAIN scopes[h].def THEN <<scopes[h].def[name]>>
    ELSE IF scopes[h].parent = 0 THEN <<>>
    ELSE Scope_get(scopes, scopes[h].parent, name)
Scope_define(scopes, h, name, val) == [scopes EXCEPT ![h].def = insert(@, name, val)]
\* Scope::assign: the scope that defines name, 0 when none does.
RECURSIVE Scope_owner(_, _, _)
Scope_owner(scopes, h, name) ==
    IF name \in DOMAIN scopes[h].def THEN h
    ELSE IF scopes[h].parent = 0 THEN 0
    ELSE Scope_owner(scopes, scopes[h].parent, name)

\* Tasks.
TStatement(stmt, scope) == [t |-> "statement", stmt |-> stmt, scope |-> scope]
TEvaluate(x, scope) == [t |-> "evaluate", expr |-> x, scope |-> scope]
\* The rest of an arm of statement (VarDecl, Expression, If, While, Return) or
\* of evaluate (Call, Assignment), for the statement or expression at.
TRest(at, scope) == [t |-> "rest", at |-> at, scope |-> scope]
\* Fn::User: s.define(param, value of the argument).
TBind(name, scope) == [t |-> "bind", name |-> name, scope |-> scope]
\* Fn::User: self.statement(&body, s), and then self.ret.take().
TBody(body, scope) == [t |-> "body", body |-> body, scope |-> scope]
TTake(base) == [t |-> "take", base |-> base]
\* main.rs: a statement of the program its loop has still to run.
TMain(stmt) == [t |-> "main", stmt |-> stmt]
\* Block: the end of the arm, where the scope of the block is dropped.
TLeave(base) == [t |-> "leave", base |-> base]

\* The scopes left when a call returns v: the scope of the call and those of
\* the blocks of its body are dropped with their last handle, unless a
\* function value that is still reachable holds one as its closure.
Held(scopes, base, v) ==
    \/ v.k = "Fn" /\ v.closure > base
    \/ \E i \in 1 .. base : \E n \in DOMAIN scopes[i].def :
           scopes[i].def[n].k = "Fn" /\ scopes[i].def[n].closure > base
Release(scopes, base, v) ==
    IF Held(scopes, base, v) THEN scopes ELSE SubSeq(scopes, 1, base)

Environment_new ==
    [ret |-> <<>>, ctl |-> <<>>, vals |-> <<>>, scopes |-> <<Scope_from(0)>>,
     err |-> NoErr, owner |-> 0]

Reverse(s) == [i \in 1 .. Len(s) |-> s[Len(s) + 1 - i]]
TopTask(env0) == Last(env0.ctl)
Done(env0) == [env0 EXCEPT !.ctl = Front(@)]
Continue(env0, tasks) == [env0 EXCEPT !.ctl = Front(@) \o tasks]
Returns(env0, v) == [env0 EXCEPT !.ctl = Front(@), !.vals = Append(@, v)]
\* Err(e) goes up through every `?` to the loop of main.rs, which reports it
\* and goes on with the next statement of the program.
Raise(env0, e) ==
    [env0 EXCEPT !.ctl = SelectSeq(@, LAMBDA task : task.t = "main"), !.vals = <<>>, !.err = e]
\* The calls in progress: one `take` is pending for each.
Depth(env0) == Cardinality({i \in 1 .. Len(env0.ctl) : env0.ctl[i].t = "take"})

\* Environment::statement from its match on, for a statement it does not skip.
statement_arm(env0, stmt, scope) ==
    CASE stmt.s = "VarDecl" ->
            Continue(env0, <<TRest(stmt, scope), TEvaluate(stmt.init, scope)>>)
      [] stmt.s = "FnDecl" ->
            Done([env0 EXCEPT !.scopes = Scope_define(@, scope, stmt.name,
                                             UserFn(scope, stmt.params, stmt.body))])
      [] stmt.s = "Expression" ->
            Continue(env0, <<TRest(stmt, scope), TEvaluate(stmt.expr, scope)>>)
      [] stmt.s = "If" ->
            Continue(env0, <<TRest(stmt, scope), TEvaluate(stmt.cond, scope)>>)
      [] stmt.s = "While" ->
            Continue(env0, <<TRest(stmt, scope), TEvaluate(stmt.cond, scope)>>)
      [] stmt.s = "Return" ->
            IF stmt.expr = <<>>
            THEN Done([env0 EXCEPT !.ret = <<Void>>, !.owner = Depth(env0)])
            ELSE Continue(env0, <<TRest(stmt, scope), TEvaluate(stmt.expr[1], scope)>>)
      [] stmt.s = "Block" ->
            Continue([env0 EXCEPT !.scopes = Append(@, Scope_from(scope))],
                     <<TLeave(Len(env0.scopes))>>
                     \o Reverse([i \in 1 .. Len(stmt.stmts) |->
                                    TStatement(stmt.stmts[i], Len(env0.scopes) + 1)]))

\* The rest of an arm of statement once evaluate has returned v.
statement_rest(env0, stmt, scope, v) ==
    CASE stmt.s = "VarDecl" ->
            Done([env0 EXCEPT !.scopes = Scope_define(@, scope, stmt.name, v)])
      [] stmt.s = "Expression" -> Done(env0)
      [] stmt.s = "If" ->
            IF ~value_truthy(v).ok THEN Raise(env0, [e |-> "Value", cause |-> value_truthy(v).err])
            ELSE IF value_truthy(v).val THEN Continue(env0, <<TStatement(stmt.succ, scope)>>)
            ELSE IF stmt.fail # <<>> THEN Continue(env0, <<TStatement(stmt.fail[1], scope)>>)
            ELSE Done(env0)
      [] stmt.s = "While" ->
            IF ~value_truthy(v).ok THEN Raise(env0, [e |-> "Value", cause |-> value_truthy(v).err])
            ELSE IF value_truthy(v).val
            THEN Continue(env0, <<TRest(stmt, scope), TEvaluate(stmt.cond, scope),
                                  TStatement(stmt.stmt, scope)>>)
            ELSE Done(env0)
      [] stmt.s = "Return" -> Done([env0 EXCEPT !.ret = <<v>>, !.owner = Depth(env0)])

\* Environment::evaluate up to the first call it makes.
evaluate_arm(env0, x, scope) ==
    CASE x.e = "Literal" -> Returns(env0, x.v)
      [] x.e = "Variable" ->
            IF Scope_get(env0.scopes, scope, x.name) = <<>>
            THEN Raise(env0, [e |-> "VarNotFound", name |-> x.name])
            ELSE Returns(env0, Scope_get(env0.scopes, scope, x.name)[1])
      [] x.e = "Call" -> Continue(env0, <<TRest(x, scope), TEvaluate(x.callee, scope)>>)
      [] x.e = "Assignment" -> Continue(env0, <<TRest(x, scope), TEvaluate(x.val, scope)>>)

\* The Call arm once the callee is evaluated: Fn::User checks the number of
\* arguments, makes the scope s of the call and evaluates the arguments into
\* it; then the body runs in s.
call_user(env0, x, scope, f) ==
    IF f.k # "Fn" THEN Raise(env0, [e |-> "Value", cause |-> [e |-> "WrongType", v |-> f]])
    ELSE IF Len(f.params) # Len(x.args)
    THEN Raise(env0, [e |-> "WrongArgCount", expected |-> Len(f.params), found |-> Len(x.args)])
    ELSE Continue([env0 EXCEPT !.scopes = Append(@, Scope_from(f.closure))],
                  <<TBody(f.body, Len(env0.scopes) + 1)>>
                  \o Reverse([i \in 1 .. 2 * Len(x.args) |->
                                 IF i % 2 = 1 THEN TEvaluate(x.args[(i + 1) \div 2], scope)
                                 ELSE TBind(f.params[i \div 2], Len(env0.scopes) + 1)]))

\* The rest of an arm of evaluate once the evaluate it called has returned v.
evaluate_rest(env0, x, scope, v) ==
    CASE x.e = "Call" -> call_user(env0, x, scope, v)
      [] x.e = "Assignment" ->
            IF Scope_owner(env0.scopes, scope, x.name) = 0
            THEN Raise(env0, [e |-> "VarNotFound", name |-> x.name])
            ELSE Returns([env0 EXCEPT !.scopes = Scope_define(@, Scope_owner(env0.scopes, scope, x.name),
                                                             x.name, v)], v)

IsStatement(at) == "s" \in DOMAIN at
Unvalued(env0) == [env0 EXCEPT !.vals = Front(@)]

(***************************************************************************)
(* The state machine: run_file of src/src/interp.rs.                       *)
(***************************************************************************)
VARIABLES
    input,      \* the source text: its token sequence, with the family it was generated in
    pc,         \* "start", "run" (inside VirtualMachine::run) or "done"
    compiler,   \* the compilation state
    vm,         \* the VirtualMachine
    result,     \* what run_file returned
    stdout,     \* the values printed so far
    hist,       \* one entry per instruction executed: the code location, frames,
                \* stack and globals it was fetched with, and how much had been printed
    stream,     \* the TokenStream over a source text: the characters unread, the offset
    scanned,    \* the items TokenStream::next (Lexer::next in LexSpec) has returned so far
    env,        \* the tree-walking Environment: ret, and its calls in progress
    lexer       \* the Lexer of token/lexer.rs over a source text

vars == <<input, pc, compiler, vm, result, stdout, hist, stream, scanned, env, lexer>>

Init ==
    /\ input \in Programs
    /\ pc = "start"
    /\ compiler = Compiler_new(input.toks)
    /\ vm = VirtualMachine_new(<<>>)
    /\ result = [kind |-> "none"]
    /\ stdout = <<>>
    /\ hist = <<>>
    /\ stream = TokenStream_new(<<>>)
    /\ scanned = <<>>
    /\ env = Environment_new
    /\ lexer = Lexer_new(<<>>)

\* run_file up to vm.run(): compile the program, take the chunk, build the VM.
run_file ==
    /\ pc = "start"
    /\ LET p == program(compiler) IN
       IF Failed(p)
       THEN /\ compiler' = p
            /\ pc' = "done"
            /\ result' = [kind |-> IF p.err.e = "panic" THEN "Panic" ELSE "Compilation",
                          err |-> p.err]
            /\ vm' = vm
       ELSE /\ compiler' = instructions(p)
            /\ vm' = load_libraries(VirtualMachine_new(p.instrs))
            /\ pc' = "run"
            /\ result' = result
    /\ UNCHANGED <<input, stdout, hist, stream, scanned, env, lexer>>

\* One iteration of the loop of VirtualMachine::run.
run_step ==
    /\ pc = "run"
    /\ ~is_at_end(vm.loc)
    /\ Len(hist) < MaxSteps
    /\ LET r == step(vm) IN
       /\ vm' = r.vm
       /\ stdout' = stdout \o r.out
       /\ hist' = Append(hist, [loc |-> vm.loc, frames |-> vm.frames, stack |-> vm.stack,
                              globals |-> vm.globals, nout |-> Len(stdout)])
       /\ IF r.err.e = "none"
          THEN UNCHANGED <<pc, result>>
          ELSE /\ pc' = "done"
               /\ result' = [kind |-> IF r.err.e = "panic" THEN "Panic" ELSE "Runtime",
                             err |-> r.err]
    /\ UNCHANGED <<input, compiler, stream, scanned, env, lexer>>

\* VirtualMachine::run finds the code location at the end of the chunk.
run_return ==
    /\ pc = "run"
    /\ is_at_end(vm.loc)
    /\ pc' = "done"
    /\ result' = [kind |-> "Ok"]
    /\ UNCHANGED <<input, compiler, vm, stdout, hist, stream, scanned, env, lexer>>

Next == run_file \/ run_step \/ run_return

Spec == Init /\ [][Next]_vars

\* Programs without `while` and without a parenthesis (no call, no function
\* with parameters).  VirtualMachine::run is a loop that nothing suspends:
\* once inside it, the next step or the return is taken.
QuietPrograms ==
    {q \in Programs : \A i \in 1 .. Len(q.toks) : q.toks[i].ttype \notin {"While", "LeftParen"}}
QuietInit == Init /\ input \in QuietPrograms
FairSpec == QuietInit /\ [][Next]_vars /\ WF_vars(run_step) /\ WF_vars(run_return)

\* ---------------------------------------------------------------------------
\* The REPL (interp.rs repl, run_line): one compiler and one VM, built without
\* the libraries, for all the lines of a session.

\* Lines a session is made of: definitions, reads and assignments of globals,
\* lines the compiler rejects after it has emitted code, lines that fail at
\* run time, at the top level and inside a call.
LineG == Named("g", <<N(1)>>)
LineBroken == <<Tok("LeftParen")>> \o Assign("g", <<N(2)>>)
LineF == Named("f", <<Tok("Function"), Tok("LeftParen"), Id("a"), Tok("RightParen"),
                      Tok("Arrow"), Id("a"), Tok("Plus"), Id("g")>>)
Lines ==
    {LineG, LineBroken, LineF,
     <<Id("g")>>,
     Assign("g", <<S("a")>>),
     <<N(1), Tok("Plus")>>,
     <<Id("g"), Tok("Plus"), Literal(Null)>>,
     <<Id("h")>>,
     CallOf(<<Id("f")>>, <<N(1)>>),
     Let("x", <<N(2)>>),
     Let("x", <<Id("h")>>),
     <<Id("x")>>,
     <<N(1), N(2)>>,
     <<N(0)>>}
MaxLines == 3
Sessions ==
    {[lines |-> l, fam |-> "repl", read |-> 0] :
        l \in UNION {[1 .. n -> Lines] : n \in 1 .. MaxLines}}

\* TokenStream::new(text) of run_line: the compiler goes on with its locals and
\* its instruction buffer, on the tokens of the new line.
Feed(p, toks) == [p EXCEPT !.toks = toks, !.pos = 0, !.ok = TRUE, !.err = NoErr]

ReplInit ==
    /\ input \in Sessions
    /\ pc = "read"
    /\ compiler = Compiler_new(<<>>)
    /\ vm = VirtualMachine_new(<<>>)
    /\ result = [kind |-> "none"]
    /\ stdout = <<>>
    /\ hist = <<>>
    /\ stream = TokenStream_new(<<>>)
    /\ scanned = <<>>
    /\ env = Environment_new
    /\ lexer = Lexer_new(<<>>)

\* readline returns a line; run_line up to vm.run(): compile one declaration,
\* take the chunk, change_chunk.  A compilation error returns before
\* Compiler::instructions is called.
repl_line ==
    /\ pc = "read"
    /\ input.read < Len(input.lines)
    /\ input' = [input EXCEPT !.read = @ + 1]
    /\ LET p == declaration(Feed(compiler, input.lines[input.read + 1])) IN
       IF Failed(p)
       THEN /\ compiler' = p
            /\ pc' = IF p.err.e = "panic" THEN "done" ELSE "read"
            /\ result' = [kind |-> IF p.err.e = "panic" THEN "Panic" ELSE "Compilation",
                          err |-> p.err]
            /\ vm' = vm
       ELSE /\ compiler' = instructions(p)
            /\ vm' = change_chunk(vm, p.instrs)
            /\ pc' = "run"
            /\ result' = [kind |-> "none"]
    /\ UNCHANGED <<stdout, hist, stream, scanned, env, lexer>>

\* One iteration of the loop of VirtualMachine::run, called by run_line.
repl_step ==
    /\ pc = "run"
    /\ ~is_at_end(vm.loc)
    /\ Len(hist) < MaxSteps
    /\ LET r == step(vm) IN
       /\ vm' = r.vm
       /\ stdout' = stdout \o r.out
       /\ hist' = Append(hist, [loc |-> vm.loc, frames |-> vm.frames, stack |-> vm.stack,
                              globals |-> vm.globals, nout |-> Len(stdout)])
       /\ IF r.err.e = "none"
          THEN UNCHANGED <<pc, result>>
          ELSE /\ pc' = IF r.err.e = "panic" THEN "done" ELSE "read"
               /\ result' = [kind |-> IF r.err.e = "panic" THEN "Panic" ELSE "Runtime",
                             err |-> r.err]
    /\ UNCHANGED <<input, compiler, stream, scanned, env, lexer>>

\* vm.run() returns Ok: run_line pops the value of the line, repl prints it.
repl_return ==
    /\ pc = "run"
    /\ is_at_end(vm.loc)
    /\ pc' = "read"
    /\ IF pop(vm).ok
       THEN /\ vm' = pop(vm).vm
            /\ result' = [kind |-> "Ok", val |-> pop(vm).val]
            /\ stdout' = Append(stdout, pop(vm).val)
       ELSE /\ vm' = vm
            /\ result' = [kind |-> "Runtime", err |-> EmptyStack]
            /\ stdout' = stdout
    /\ UNCHANGED <<input, compiler, hist, stream, scanned, env, lexer>>

\* readline returns Eof: the loop of repl ends.
repl_eof ==
    /\ pc = "read"
    /\ input.read = Len(input.lines)
    /\ pc' = "done"
    /\ UNCHANGED <<input, compiler, vm, result, stdout, hist, stream, scanned, env, lexer>>

ReplNext == repl_line \/ repl_step \/ repl_return \/ repl_eof

ReplSpec == ReplInit /\ [][ReplNext]_vars

\* ---------------------------------------------------------------------------
\* The jumps of long constructs.  The compiler stands where it has compiled
\* the condition and the body of an if or a while, or the two operands of an
\* and/or, and the body (the right operand) is n instructions long; what is
\* left of the rule is the patching of its jumps.
SmallBody == 6
NearLimit == 6
BodyLens == (1 .. SmallBody) \cup ((I16Max - NearLimit) .. (I16Max + 2))
JumpCases == {[fam |-> "jump", kind |-> k, n |-> n] :
                 k \in {"if", "while", "and", "or"}, n \in BodyLens}

\* Code of n instructions that leaves one value: `1 + 1 + ... `, or a block of
\* literals.
Body(n) == [i \in 1 .. n |-> IF i = 1 \/ i % 2 = 0 THEN Push(Num(1)) ELSE Op("Add")]
\* The instruction buffer before the jumps of the construct are patched
\* (jump_idx is 1 for if, and, or and 2 for while; jump_else_idx is 3 + n).
Unpatched(c) ==
    CASE c.kind = "if" ->
            (<<Push(Null), Op("Temp"), Op("Pop")>> \o Body(c.n))
            \o <<Op("Temp"), Op("Pop"), Push(Null)>>
      [] c.kind = "while" ->
            <<Push(Null), Push(Null), Op("Temp"), Op("Pop"), Op("Pop")>> \o Body(c.n)
      [] OTHER -> <<Push(Null), Op("Temp"), Op("Pop")>> \o Body(c.n)

JumpInit ==
    /\ input \in JumpCases
    /\ pc = "patch"
    /\ compiler = [Compiler_new(<<>>) EXCEPT !.instrs = Unpatched(input)]
    /\ vm = VirtualMachine_new(<<>>)
    /\ result = [kind |-> "none"]
    /\ stdout = <<>>
    /\ hist = <<>>
    /\ stream = TokenStream_new(<<>>)
    /\ scanned = <<>>
    /\ env = Environment_new
    /\ lexer = Lexer_new(<<>>)

\* The end of if_expr, while_expr and of one round of the loops of and, or.
close_jumps ==
    /\ pc = "patch"
    /\ LET p == CASE input.kind = "if" -> if_close(compiler, 1, 3 + input.n)
                  [] input.kind = "while" -> while_close(compiler, 1, 2)
                  [] input.kind = "and" ->
                        patch_jump(compiler, 1, Len(compiler.instrs) - 1, "JumpIfFalse")
                  [] input.kind = "or" ->
                        patch_jump(compiler, 1, Len(compiler.instrs) - 1, "JumpIfTrue")
       IN /\ compiler' = p
          /\ result' = IF Failed(p)
                       THEN [kind |-> IF p.err.e = "panic" THEN "Panic" ELSE "Compilation",
                             err |-> p.err]
                       ELSE [kind |-> "Ok"]
    /\ pc' = "done"
    /\ UNCHANGED <<input, vm, stdout, hist, stream, scanned, env, lexer>>

JumpNext == close_jumps

JumpSpec == JumpInit /\ [][JumpNext]_vars

(***************************************************************************)
(* Scanning a source text: what Compiler pulls from the TokenStream, one   *)
(* call of next after the other, until the stream ends or yields an error. *)
(***************************************************************************)
MaxText == 5
TextChars == {"/", "*", " ", "a", "1", "\n"}
RECURSIVE Strings(_)
Strings(n) ==
    IF n = 0 THEN {<<>>}
    ELSE Strings(n - 1) \cup {Append(s, c) : s \in {t \in Strings(n - 1) : Len(t) = n - 1}, c \in TextChars}
Texts == {[fam |-> "text", chars |-> s] : s \in Strings(MaxText)}

ScanInit ==
    /\ input \in Texts
    /\ pc = "scan"
    /\ compiler = Compiler_new(<<>>)
    /\ vm = VirtualMachine_new(<<>>)
    /\ result = [kind |-> "none"]
    /\ stdout = <<>>
    /\ hist = <<>>
    /\ stream = TokenStream_new(input.chars)
    /\ scanned = <<>>
    /\ env = Environment_new
    /\ lexer = Lexer_new(<<>>)

\* One call of TokenStream::next.
scan_next ==
    /\ pc = "scan"
    /\ stream' = TokenStream_next(stream).ts
    /\ scanned' = Append(scanned, TokenStream_next(stream).item)
    /\ pc' = IF TokenStream_next(stream).item.some /\ TokenStream_next(stream).item.ok
             THEN "scan" ELSE "done"
    /\ UNCHANGED <<input, compiler, vm, result, stdout, hist, env, lexer>>

ScanNext == scan_next

ScanSpec == ScanInit /\ [][ScanNext]_vars

(***************************************************************************)
(* The tree-walking evaluator run on a parsed program: the loop of         *)
(* from_file in main.rs calls statement for each statement of the program, *)
(* in the global scope, and reports the error of one that fails.           *)
(***************************************************************************)
Lit1 == ELit(Num(1))
Lit2 == ELit(Num(2))
TreeCall(name, argv) == ECall(EVar(name), argv)
LetR(x) == SVarDecl("r", x)
TreeF(stmts) == SFnDecl("f", <<>>, SBlock(stmts))
TreeG(v) == SFnDecl("g", <<>>, SBlock(<<SReturn(<<ELit(v)>>)>>))
ReturnInLoop(cond) == SWhile(cond, SBlock(<<SReturn(<<Lit1>>)>>))
Conds == {Bool(TRUE), Bool(FALSE), Num(1), Num(0), Null}

EvalBodies ==
    {<<ReturnInLoop(ELit(c)), SReturn(<<Lit2>>)>> : c \in Conds}
    \cup {<<SIf(ELit(c), SReturn(<<Lit1>>), fail), SReturn(<<Lit2>>)>> :
             c \in Conds, fail \in {<<>>, <<SReturn(<<ELit(Num(0))>>)>>}}
    \cup {<<ReturnInLoop(TreeCall("g", <<>>)), SReturn(<<Lit2>>)>>,
          <<SVarDecl("x", ELit(Bool(TRUE))),
            SWhile(EVar("x"), SBlock(<<SExpression(EAssign("x", ELit(Bool(FALSE)))),
                                       SReturn(<<Lit1>>)>>))>>,
          <<SReturn(<<Lit1>>), SExpression(EAssign("t", Lit2))>>,
          <<SBlock(<<SReturn(<<>>)>>), SExpression(EAssign("t", Lit2))>>,
          <<SReturn(<<TreeCall("g", <<>>)>>)>>,
          <<SExpression(TreeCall("g", <<>>)), SExpression(EAssign("t", Lit2))>>,
          <<SExpression(EAssign("t", Lit2))>>,
          <<SExpression(EAssign("u", Lit2))>>,
          <<>>}

Mains ==
    {<<LetR(TreeCall("f", <<>>))>>,
     <<LetR(TreeCall("f", <<Lit1>>))>>,
     <<LetR(TreeCall("t", <<>>))>>,
     <<SFnDecl("id", <<"a">>, SBlock(<<SReturn(<<EVar("a")>>)>>)),
       LetR(TreeCall("id", <<TreeCall("f", <<>>)>>))>>}

EvalPrograms ==
    {[fam |-> "tree",
      stmts |-> <<SVarDecl("t", ELit(Num(0))), TreeG(v), TreeF(body)>> \o main] :
        v \in {Bool(TRUE), Num(0)}, body \in EvalBodies, main \in Mains}

EvalInit ==
    /\ input \in EvalPrograms
    /\ pc = "eval"
    /\ compiler = Compiler_new(<<>>)
    /\ vm = VirtualMachine_new(<<>>)
    /\ result = [kind |-> "none"]
    /\ stdout = <<>>
    /\ hist = <<>>
    /\ stream = TokenStream_new(<<>>)
    /\ scanned = <<>>
    /\ lexer = Lexer_new(<<>>)
    /\ env = [Environment_new EXCEPT
                 !.ctl = Reverse([i \in 1 .. Len(input.stmts) |-> TMain(input.stmts[i])])]

Evaluating == pc = "eval" /\ env.ctl # <<>>
Others == <<input, pc, compiler, vm, result, stdout, hist, stream, scanned, lexer>>

\* from_file: the next turn of `for s in stmts.iter()`.
main_statement ==
    /\ Evaluating /\ TopTask(env).t = "main"
    /\ env' = Continue(env, <<TStatement(TopTask(env).stmt, 1)>>)
    /\ UNCHANGED Others

\* statement, entered while a return value is pending: return Ok(()).
statement_skip ==
    /\ Evaluating /\ TopTask(env).t = "statement" /\ env.ret # <<>>
    /\ env' = Done(env)
    /\ UNCHANGED Others

\* statement, entered with no return value pending: the arm of its match.
statement ==
    /\ Evaluating /\ TopTask(env).t = "statement" /\ env.ret = <<>>
    /\ env' = statement_arm(env, TopTask(env).stmt, TopTask(env).scope)
    /\ UNCHANGED Others

\* evaluate: the arm of its match.
evaluate ==
    /\ Evaluating /\ TopTask(env).t = "evaluate"
    /\ env' = evaluate_arm(env, TopTask(env).expr, TopTask(env).scope)
    /\ UNCHANGED Others

\* An arm of statement or of evaluate goes on with the value evaluate returned.
resume ==
    /\ Evaluating /\ TopTask(env).t = "rest"
    /\ env' = IF IsStatement(TopTask(env).at)
              THEN statement_rest(Unvalued(env), TopTask(env).at, TopTask(env).scope, Last(env.vals))
              ELSE evaluate_rest(Unvalued(env), TopTask(env).at, TopTask(env).scope, Last(env.vals))
    /\ UNCHANGED Others

\* Fn::User: s.define(param, value of the argument).
bind_param ==
    /\ Evaluating /\ TopTask(env).t = "bind"
    /\ env' = Done([Unvalued(env) EXCEPT
                       !.scopes = Scope_define(@, TopTask(env).scope, TopTask(env).name, Last(env.vals))])
    /\ UNCHANGED Others

\* Fn::User: self.statement(&body, s).
call_body ==
    /\ Evaluating /\ TopTask(env).t = "body"
    /\ env' = Continue(env, <<TTake(TopTask(env).scope - 1),
                               TStatement(TopTask(env).body, TopTask(env).scope)>>)
    /\ UNCHANGED Others

\* Fn::User: self.ret.take(), Void when there is none.
take_ret ==
    /\ Evaluating /\ TopTask(env).t = "take"
    /\ LET ret == IF env.ret = <<>> THEN Void ELSE env.ret[1] IN
       env' = Returns([env EXCEPT !.ret = <<>>,
                                  !.scopes = Release(@, TopTask(env).base, ret)], ret)
    /\ UNCHANGED Others

\* Block: Ok(()) after the last statement; the scope of the block is dropped.
leave_block ==
    /\ Evaluating /\ TopTask(env).t = "leave"
    /\ env' = Done([env EXCEPT !.scopes = Release(@, TopTask(env).base, Void)])
    /\ UNCHANGED Others

\* from_file: the loop is over; err is the last error it reported.
eval_end ==
    /\ pc = "eval" /\ env.ctl = <<>>
    /\ pc' = "done"
    /\ result' = IF env.err = NoErr THEN [kind |-> "Ok", val |-> Void]
                 ELSE [kind |-> "Runtime", err |-> env.err]
    /\ UNCHANGED <<input, compiler, vm, stdout, hist, stream, scanned, env, lexer>>

EvalNext ==
    \/ main_statement
    \/ statement_skip
    \/ statement
    \/ evaluate
    \/ resume
    \/ bind_param
    \/ call_body
    \/ take_ret
    \/ leave_block
    \/ eval_end

EvalSpec == EvalInit /\ [][EvalNext]_vars

(***************************************************************************)
(* The lexer on a source text: its user takes tokens until next returns    *)
(* None.  A text is a few pieces, one after the other.                     *)
(***************************************************************************)
MaxPieces == 3
MaxTokens == 4      \* tokens taken from one text
Pieces ==
    {<<"f", "a", "l", "s", "e">>, <<"t", "r", "u", "e">>, <<"v", "o", "i", "d">>,
     <<"f", "n">>, <<"x">>, <<"_">>, <<"1">>, <<".">>, <<" ">>, <<"\n">>, <<"/">>, <<"=">>,
     <<"!">>, <<"\"">>, <<";">>}
RECURSIVE Joined(_)
Joined(n) ==
    IF n = 0 THEN {<<>>}
    ELSE Joined(n - 1) \cup {s \o p : s \in Joined(n - 1), p \in Pieces}
LexTexts == {[fam |-> "lex", chars |-> s] : s \in Joined(MaxPieces)}

LexInit ==
    /\ input \in LexTexts
    /\ pc = "lex"
    /\ compiler = Compiler_new(<<>>)
    /\ vm = VirtualMachine_new(<<>>)
    /\ result = [kind |-> "none"]
    /\ stdout = <<>>
    /\ hist = <<>>
    /\ stream = TokenStream_new(<<>>)
    /\ scanned = <<>>
    /\ env = Environment_new
    /\ lexer = Lexer_new(input.chars)

\* One call of Lexer::next.
lex_next ==
    /\ pc = "lex"
    /\ Len(scanned) < MaxTokens
    /\ lexer' = Lexer_next(lexer).lx
    /\ scanned' = Append(scanned, Lexer_next(lexer).item)
    /\ pc' = IF Lexer_next(lexer).item.opt = "Some" THEN "lex" ELSE "done"
    /\ UNCHANGED <<input, compiler, vm, result, stdout, hist, stream, env>>

LexNext == lex_next

LexSpec == LexInit /\ [][LexNext]_vars

(***************************************************************************)
(* Properties.                                                             *)
(***************************************************************************)
Range(s) == {s[i] : i \in DOMAIN s}
Max(xs) == CHOOSE x \in xs : \A y \in xs : y <= x
Min(xs) == CHOOSE x \in xs : \A y \in xs : x <= y

\* run_file has returned Ok(()); no error has been returned so far.
Finished == pc = "done" /\ result.kind = "Ok"
Alive == pc = "run" \/ Finished

\* The instruction at a code location; the constructs of one kind the compiler
\* recorded, each with the chunk it was compiled into.
OpAt(loc) == loc.chunk[loc.ip + 1]
Notes(kind) == {n \in Range(compiler.notes) : n.m.kind = kind}

\* The instruction executed last, and whether it was a Call(n) with the callee
\* and n arguments on the stack.
Prev == hist[Len(hist)]
PrevIs(op) == hist # <<>> /\ OpAt(Prev.loc).op = op
PrevCall == PrevIs("Call") /\ Len(Prev.stack) > OpAt(Prev.loc).argc
Callee(h) == h.stack[Len(h.stack) - OpAt(h.loc).argc]

\* C1. Stack-balance law: an expression whose execution raises no runtime
\* error, run on a VM whose evaluation stack has depth d, ends with stack depth
\* d + 1.  The whole program is one expression here and the fresh VM has
\* depth 1 (the reserved slot), so a run that returns Ok ends with depth 2.
C1_StackBalance ==
    (input.fam = "expr" /\ Finished) => Len(vm.stack) = 2

\* C2. Local-slot invariant: the index declare_local chose for a `let` is the
\* stack depth, relative to the frame base, at which the initialiser's value
\* sits: when the GetLocal(idx) that `local` emitted is about to execute, the
\* slot it reads is the top of the stack, where the initialiser left its value.
C2_LocalSlot ==
    \A n \in Notes("let") :
        (pc = "run" /\ vm.loc.chunk = n.chunk /\ vm.loc.ip = n.m.at)
            => local_idx(vm, n.m.idx) = Len(vm.stack) - 1

\* The Call that the Ret executed last returns from: the last Call executed one
\* frame less deep.
CallsBelow == {j \in 1 .. Len(hist) - 1 :
                  /\ OpAt(hist[j].loc).op = "Call"
                  /\ Len(hist[j].frames) = Len(Prev.frames) - 1}
Returned(c) ==
    /\ vm.frames = c.frames
    /\ vm.loc = [chunk |-> c.loc.chunk, ip |-> c.loc.ip + 1]
    /\ Len(vm.stack) = Len(c.stack) - OpAt(c.loc).argc
    /\ Front(vm.stack) = SubSeq(c.stack, 1, Len(c.stack) - OpAt(c.loc).argc - 1)

\* C3. Call protocol for interpreted functions: Call(n) on a Function of arity n
\* pushes one frame with the caller's chunk, the ip after the Call and the depth
\* len - n - 1, and goes on at offset 0 of the callee's chunk; when Ret has
\* executed, the frame is popped, execution is back after the Call, and the
\* stack is the caller's with the callee and its n arguments replaced by one
\* value.
C3_CallProtocol ==
    /\ (PrevCall /\ Callee(Prev).k = "Function" /\ Callee(Prev).arity = OpAt(Prev.loc).argc)
        => /\ vm.frames = Append(Prev.frames,
                                 [call_loc |-> [chunk |-> Prev.loc.chunk, ip |-> Prev.loc.ip + 1],
                                  stack_depth |-> Len(Prev.stack) - OpAt(Prev.loc).argc - 1])
           /\ vm.loc = [chunk |-> Callee(Prev).chunk, ip |-> 0]
    /\ (PrevIs("Ret") /\ Prev.frames # <<>>)
        => (CallsBelow # {} /\ Returned(hist[Max(CallsBelow)]))

\* C4. Declaration-sequencing law: a program of k >= 1 declarations run to
\* completion without error on a fresh VM ends with stack depth 2, whatever
\* mix of `let`, `global` and expression declarations it contains.
C4_DeclarationSequencing ==
    (input.fam = "decls" /\ Finished) => Len(vm.stack) = 2

\* C5. Native call arity check: Call(n) on a NativeFn of another arity fails
\* with WrongArgCount and the callable is not invoked (nothing is printed);
\* with arity n the callable gets the top n values (print writes the first of
\* them) and those n values and the callee are replaced by the result.
C5_NativeArity ==
    (PrevCall /\ Callee(Prev).k = "NativeFn")
        => IF Callee(Prev).arity # OpAt(Prev.loc).argc
           THEN /\ pc = "done"
                /\ result.kind = "Runtime"
                /\ result.err.e = "WrongArgCount"
                /\ Len(stdout) = Prev.nout
           ELSE /\ Alive
                /\ vm.stack = Append(SubSeq(Prev.stack, 1, Len(Prev.stack) - OpAt(Prev.loc).argc - 1),
                                     Null)
                /\ stdout = Append(SubSeq(stdout, 1, Prev.nout),
                                   Prev.stack[Len(Prev.stack) - OpAt(Prev.loc).argc + 1])

\* The instructions fetched in the chunk and frame the VM is in now; those of
\* them fetched at offset `at`; the offsets fetched in this frame after entry j.
InFrame == {j \in 1 .. Len(hist) : hist[j].loc.chunk = vm.loc.chunk /\ hist[j].frames = vm.frames}
Visits(at) == {j \in InFrame : hist[j].loc.ip = at}
Since(j) == {hist[k].loc.ip : k \in {i \in InFrame : i > j}}

\* The VM has executed the code of construct n from offset `at` and stands at
\* its end n.m.hi: since the instruction at `at` was last fetched in this
\* frame, the frame has fetched nothing outside at + 1 .. hi - 1.
Left(n, at) ==
    /\ Alive
    /\ vm.loc.chunk = n.chunk
    /\ vm.loc.ip = n.m.hi
    /\ Visits(at) # {}
    /\ Since(Max(Visits(at))) \subseteq at + 1 .. n.m.hi - 1
Entry(at) == hist[Max(Visits(at))]

\* The code at..to - 1 of chunk is one Push.
IsLit(chunk, at, to) == to = at + 1 /\ chunk[at + 1].op = "Push"

\* C6. `if c then A else B` leaves A's value when c is truthy and B's value
\* when c is falsy, `if c then A` with falsy c leaves Null; the condition value
\* is removed, exactly one of the two branches is executed, and exactly one
\* value is added to the stack.  The code is: c, JumpIfFalse at jump, Pop, A,
\* Jump at jump_else, Pop, B (or Push Null), hi.
C6_If ==
    \A n \in Notes("if") : Left(n, n.m.jump) =>
        /\ Len(vm.stack) = Len(Entry(n.m.jump).stack)
        /\ IF is_truthy(Last(Entry(n.m.jump).stack))
           THEN /\ n.m.jump_else \in Since(Max(Visits(n.m.jump)))
                /\ Since(Max(Visits(n.m.jump))) \cap (n.m.jump_else + 1 .. n.m.hi - 1) = {}
                /\ Last(vm.stack) = Last(Entry(n.m.jump_else).stack)
                /\ IsLit(n.chunk, n.m.jump + 2, n.m.jump_else)
                     => Last(vm.stack) = n.chunk[n.m.jump + 3].v
           ELSE /\ n.m.jump_else + 1 \in Since(Max(Visits(n.m.jump)))
                /\ Since(Max(Visits(n.m.jump))) \cap (n.m.jump + 1 .. n.m.jump_else) = {}
                /\ ~n.m.has_else => Last(vm.stack) = Null
                /\ IsLit(n.chunk, n.m.jump_else + 2, n.m.hi)
                     => Last(vm.stack) = n.chunk[n.m.jump_else + 3].v

\* The fetches of the JumpIfFalse of loop n since the loop was entered.
Tests(n) == {j \in Visits(n.m.jump) : j > Max(Visits(n.m.start))}

\* C7. `while c { body }` evaluates c before every iteration; when c first
\* evaluates falsy the loop exits leaving exactly one value on top of the
\* stack, the body's value from the last iteration or Null after zero
\* iterations, and the stack below it is as deep as before the loop.  The code
\* is: Push Null at start, c, JumpIfFalse at jump, Pop, Pop, body, Jump at
\* back, Pop, hi.
C7_While ==
    \A n \in Notes("while") : Left(n, n.m.start) =>
        /\ Len(vm.stack) = Len(Entry(n.m.start).stack) + 1
        /\ \A j \in Tests(n) : is_truthy(Last(hist[j].stack)) <=> j # Max(Tests(n))
        /\ \A k \in InFrame : (k > Max(Visits(n.m.start)) /\ hist[k].loc.ip = n.m.jump + 1)
              => (k - 1 \in Tests(n) /\ is_truthy(Last(hist[k - 1].stack)))
        /\ IF \E k \in Visits(n.m.back) : k > Max(Visits(n.m.start))
           THEN /\ Last(vm.stack) = Last(Entry(n.m.back).stack)
                /\ IsLit(n.chunk, n.m.jump + 3, n.m.back)
                     => Last(vm.stack) = n.chunk[n.m.jump + 4].v
           ELSE Last(vm.stack) = Null

\* The left operand's value a decides the `and`/`or` n without the right one.
Short(n, a) == IF n.m.kind = "and" THEN ~is_truthy(a) ELSE is_truthy(a)

\* C8. Short-circuit law: when the left operand of `and` is falsy, or the left
\* operand of `or` is truthy, no instruction compiled from the right operand is
\* executed: an instruction of the right operand's code jump + 1 .. hi - 1 is
\* executed only after the JumpIf at jump last found, in the same frame, a left
\* operand that does not decide; and when it decides, the expression is left
\* by that one instruction, with no call made, nothing printed, and the stack
\* and the globals as they were.
C8_ShortCircuit ==
    \A n \in Notes("and") \cup Notes("or") :
        /\ \A k \in 1 .. Len(hist) :
              (hist[k].loc.chunk = n.chunk /\ hist[k].loc.ip \in n.m.jump + 1 .. n.m.hi - 1)
              => \E g \in 1 .. k - 1 :
                    /\ hist[g].loc = [chunk |-> n.chunk, ip |-> n.m.jump]
                    /\ hist[g].frames = hist[k].frames
                    /\ ~Short(n, Last(hist[g].stack))
                    /\ \A h \in g + 1 .. k - 1 :
                          ~(hist[h].loc = hist[g].loc /\ hist[h].frames = hist[g].frames)
        /\ (Left(n, n.m.jump) /\ Short(n, Last(Entry(n.m.jump).stack)))
              => /\ Max(Visits(n.m.jump)) = Len(hist)
                 /\ vm.stack = Prev.stack
                 /\ vm.globals = Prev.globals
                 /\ vm.frames = Prev.frames
                 /\ Len(stdout) = Prev.nout

\* An `and` whose right operand holds a Call has been decided by a falsy left
\* operand.
C8_Witness ==
    \E n \in Notes("and") :
        /\ Left(n, n.m.jump)
        /\ Short(n, Last(Entry(n.m.jump).stack))
        /\ \E i \in n.m.jump + 2 .. n.m.hi - 1 : n.chunk[i + 1].op = "Call"

\* C9. The value of `a and b` is a's value when a is falsy and b's value
\* otherwise; the value of `a or b` is a's value when a is truthy and b's value
\* otherwise; the result is the operand itself, exactly one value is left
\* where a's value was, and the same holds of each operator of a chain.  The
\* code is: a, JumpIf at jump, Pop, b, hi.
C9_AndOrValue ==
    \A n \in Notes("and") \cup Notes("or") : Left(n, n.m.jump) =>
        /\ Len(vm.stack) = Len(Entry(n.m.jump).stack)
        /\ IF Short(n, Last(Entry(n.m.jump).stack))
           THEN Last(vm.stack) = Last(Entry(n.m.jump).stack)
           ELSE IsLit(n.chunk, n.m.jump + 2, n.m.hi)
                     => Last(vm.stack) = n.chunk[n.m.jump + 3].v

\* C10. Local-shadowing law: after `let x = a  let x = b` a reference to x
\* yields b, and after the inner block of `{ let x = a { let x = b } x }` x
\* yields a again.  The programs of family "shadow" end with that reference;
\* expect is the value the law gives it.
C10_Shadowing ==
    (input.fam = "shadow" /\ Finished) => Last(vm.stack) = input.expect

\* The instruction executed last was a jump and returned no error; it was taken.
JumpOps == {"Jump", "JumpIfFalse", "JumpIfTrue"}
PrevJump == hist # <<>> /\ OpAt(Prev.loc).op \in JumpOps /\ Alive
Taken(h) ==
    CASE OpAt(h.loc).op = "Jump" -> TRUE
      [] OpAt(h.loc).op = "JumpIfFalse" -> ~is_truthy(Last(h.stack))
      [] OpAt(h.loc).op = "JumpIfTrue" -> is_truthy(Last(h.stack))

\* C11. Jump operands are relative to the instruction immediately following
\* the jump: Jump(D) at index j sets the instruction pointer to j + 1 + D, a
\* taken JumpIfFalse(D)/JumpIfTrue(D) does the same, an untaken conditional
\* jump continues at j + 1, and none of the three changes the evaluation stack.
C11_JumpRelative ==
    PrevJump =>
        /\ vm.stack = Prev.stack
        /\ vm.loc.chunk = Prev.loc.chunk
        /\ vm.loc.ip = IF Taken(Prev) THEN Prev.loc.ip + 1 + OpAt(Prev.loc).d
                       ELSE Prev.loc.ip + 1

\* A backward Jump, a taken and an untaken conditional jump have been executed.
C11_Witness ==
    /\ PrevJump
    /\ OpAt(Prev.loc).op = "Jump" /\ OpAt(Prev.loc).d < 0
    /\ \E j \in 1 .. Len(hist) : OpAt(hist[j].loc).op = "JumpIfFalse" /\ Taken(hist[j])
    /\ \E j \in 1 .. Len(hist) : OpAt(hist[j].loc).op = "JumpIfFalse" /\ ~Taken(hist[j])

\* The jumps the compiler emitted for construct n, each <<j, t>>: the index j
\* of the jump and the index t of the instruction it is meant to continue at.
\* if: JumpIfFalse to the Pop before the else code, Jump to the end.  while:
\* JumpIfFalse to the Pop after the loop, Jump back to the condition.
\* and/or: JumpIf to the end.
JumpsOf(n) ==
    CASE n.m.kind = "if" -> {<<n.m.jump, n.m.jump_else + 1>>, <<n.m.jump_else, n.m.hi>>}
      [] n.m.kind = "while" -> {<<n.m.jump, n.m.back + 1>>, <<n.m.back, n.m.loop>>}
      [] n.m.kind \in {"and", "or"} -> {<<n.m.jump, n.m.hi>>}
      [] OTHER -> {}
Jumping == {n \in Range(compiler.notes) : JumpsOf(n) # {}}

\* C12 as claimed. Jump operands are relative to the slot holding the jump
\* itself: for every jump the compiler emits at index j whose intended target
\* is at index t the operand equals t - j, and a jump with operand D executed
\* at index j continues at j + D (Jump(+1) falls through to j + 1).
C12_JumpFromSlot ==
    /\ \A n \in Jumping : \A jt \in JumpsOf(n) : n.chunk[jt[1] + 1].d = jt[2] - jt[1]
    /\ (PrevJump /\ Taken(Prev)) => vm.loc.ip = Prev.loc.ip + OpAt(Prev.loc).d

\* C12, amended. For every jump the compiler emits at index j whose intended
\* target is at index t the operand equals t - (j + 1), the distance from the
\* instruction after the jump, and such a jump, when taken, continues at t.
C12_JumpFromNext ==
    \A n \in Jumping : \A jt \in JumpsOf(n) :
        /\ n.chunk[jt[1] + 1].op \in JumpOps
        /\ n.chunk[jt[1] + 1].d = jt[2] - (jt[1] + 1)
        /\ (PrevJump /\ Taken(Prev) /\ Prev.loc = [chunk |-> n.chunk, ip |-> jt[1]])
              => vm.loc = [chunk |-> n.chunk, ip |-> jt[2]]

\* The JumpIfFalse of an `if` has been taken and the Jump back of a `while`
\* has been executed.
C12_Witness ==
    /\ \E n \in Notes("while") : PrevJump /\ Prev.loc = [chunk |-> n.chunk, ip |-> n.m.back]
    /\ \E n \in Notes("while") : \E j \in 1 .. Len(hist) :
          hist[j].loc = [chunk |-> n.chunk, ip |-> n.m.jump] /\ Taken(hist[j])

\* The stack index of the slot of the local that the `let` n declared, when it
\* was last executed in this frame: where the initialiser's value was.
SlotOf(n) == Len(Entry(n.m.at).stack) - 1
LetsOf(name, idx) ==
    {n \in Notes("let") : /\ n.chunk = vm.loc.chunk /\ n.m.name = name /\ n.m.idx = idx
                          /\ Visits(n.m.at) # {}}

\* The Set instruction of assignment n has this moment been executed; the
\* state the assignment `x = E` started in (the code of E is lo .. at - 1).
Assigned(n) == hist # <<>> /\ Alive /\ Prev.loc = [chunk |-> n.chunk, ip |-> n.m.at]
StartOf(n) == IF n.m.lo = n.m.at THEN Prev ELSE Entry(n.m.lo)

\* C13. Assignment is an expression: `x = E`, for a local or a global x,
\* stores E's value in x and leaves that same value as the single result on
\* the stack; SetLocal and SetGlobal copy the top of the stack without popping
\* it, so `a = 5` evaluates to Num(5) and the stack grows by exactly one.
C13_Assignment ==
    \A n \in Notes("assign") : Assigned(n) =>
        /\ vm.stack # <<>>
        /\ Len(vm.stack) = Len(Prev.stack)
        /\ Last(vm.stack) = Last(Prev.stack)
        /\ Len(vm.stack) = Len(StartOf(n).stack) + 1
        /\ IsLit(n.chunk, n.m.lo, n.m.at) => Last(vm.stack) = n.chunk[n.m.lo + 1].v
        /\ IF OpAt(Prev.loc).op = "SetGlobal"
           THEN n.m.name \in DOMAIN vm.globals /\ vm.globals[n.m.name] = Last(vm.stack)
           ELSE /\ vm.stack[local_idx(vm, OpAt(Prev.loc).i) + 1] = Last(vm.stack)
                /\ \A l \in LetsOf(n.m.name, OpAt(Prev.loc).i) :
                      (\A k \in LetsOf(n.m.name, OpAt(Prev.loc).i) :
                          Max(Visits(k.m.at)) <= Max(Visits(l.m.at)))
                      => local_idx(vm, OpAt(Prev.loc).i) = SlotOf(l)

\* The globals by what was executed: the steps before the last one that stored
\* into the global `name`, the value it holds by them (a library's when no
\* step stored into it), and the names defined by them.
Libraries == load_libraries(VirtualMachine_new(<<>>)).globals
Stores(name) ==
    {j \in 1 .. Len(hist) - 1 : OpAt(hist[j].loc) = SetGlobal(name) /\ hist[j].stack # <<>>}
Stored(name) ==
    IF Stores(name) # {} THEN Last(hist[Max(Stores(name))].stack) ELSE Libraries[name]
IsDefined(name) == Stores(name) # {} \/ name \in DOMAIN Libraries

\* A function that was created when the global `name` was not yet defined reads
\* it at step j of a call.
ReadsLate(j) ==
    /\ OpAt(hist[j].loc).op = "GetGlobal"
    /\ hist[j].frames # <<>>
    /\ \E i \in 1 .. j - 1 :
          /\ OpAt(hist[j].loc).name \notin DOMAIN hist[i].globals
          /\ \E f \in DOMAIN hist[i].globals :
                /\ hist[i].globals[f].k = "Function"
                /\ hist[i].globals[f].chunk = hist[j].loc.chunk

\* C14. Globals are resolved at execution: GetGlobal(n) succeeds exactly when n
\* is defined at that moment, and pushes the value n holds then, so a function
\* body may read a global defined after the function was compiled; GetGlobal of
\* an absent name fails with UndeclaredGlobal(n) and leaves the stack, the
\* frames and the globals unchanged.
C14_GlobalsAtExecution ==
    PrevIs("GetGlobal") =>
        /\ vm.frames = Prev.frames
        /\ vm.globals = Prev.globals
        /\ IF IsDefined(OpAt(Prev.loc).name)
           THEN /\ Alive
                /\ vm.stack = Append(Prev.stack, Stored(OpAt(Prev.loc).name))
           ELSE /\ pc = "done"
                /\ result = [kind |-> "Runtime",
                             err |-> [e |-> "UndeclaredGlobal", name |-> OpAt(Prev.loc).name]]
                /\ vm.stack = Prev.stack
C14_Witness ==
    /\ PrevIs("GetGlobal")
    /\ result.kind = "Runtime"
    /\ \E j \in 1 .. Len(hist) - 1 : ReadsLate(j) /\ hist[j + 1].stack = Append(hist[j].stack, Num(1))

\* The chunk of a function ends with Ret.  The uses of identifiers the compiler
\* recorded, and whether the chunk declares `name` as a parameter or a local
\* with slot index idx.
IsFnChunk(chunk) == chunk # <<>> /\ Last(chunk) = Op("Ret")
Uses == Notes("var") \cup Notes("assign")
Declares(chunk, name, idx) ==
    \E n \in Notes("param") \cup Notes("let") :
        n.chunk = chunk /\ n.m.name = name /\ n.m.idx = idx

\* The calls of interpreted functions that have returned: the step j of the
\* Call, the step of the Ret that popped its frame, the stack after that step.
After(k) == IF k = Len(hist) THEN vm.stack ELSE hist[k + 1].stack
RetsOf(j) ==
    {k \in j + 1 .. Len(hist) :
        /\ OpAt(hist[k].loc).op = "Ret"
        /\ hist[k].frames # <<>>
        /\ Front(hist[k].frames) = hist[j].frames
        /\ (k = Len(hist) => Alive)}
Calls ==
    {j \in 1 .. Len(hist) :
        /\ OpAt(hist[j].loc).op = "Call"
        /\ Len(hist[j].stack) > OpAt(hist[j].loc).argc
        /\ Callee(hist[j]).k = "Function"
        /\ RetsOf(j) # {}}
ResultOf(j) == Last(After(CHOOSE k \in RetsOf(j) : \A l \in RetsOf(j) : k <= l))
ArgsOf(h) == SubSeq(h.stack, Len(h.stack) - OpAt(h.loc).argc + 1, Len(h.stack))
GlobalsNamed(chunk) ==
    {chunk[i].name : i \in {l \in 1 .. Len(chunk) : chunk[l].op \in {"GetGlobal", "SetGlobal"}}}
SameGlobals(h1, h2, names) ==
    \A n \in names :
        /\ n \in DOMAIN h1.globals <=> n \in DOMAIN h2.globals
        /\ n \in DOMAIN h1.globals => h1.globals[n] = h2.globals[n]
SameCall(i, j) ==
    /\ Callee(hist[i]) = Callee(hist[j])
    /\ ArgsOf(hist[i]) = ArgsOf(hist[j])
    /\ SameGlobals(hist[i], hist[j], GlobalsNamed(Callee(hist[i]).chunk))

C16_WrongArgCount ==
    (PrevCall /\ Callee(Prev).k = "Function" /\ Callee(Prev).arity # OpAt(Prev.loc).argc) =>
        /\ pc = "done"
        /\ result = [kind |-> "Runtime",
                     err |-> [e |-> "WrongArgCount", expected |-> Callee(Prev).arity,
                              found |-> OpAt(Prev.loc).argc]]
        /\ vm.frames = Prev.frames
        /\ vm.loc.chunk = Prev.loc.chunk
        /\ vm.stack = Prev.stack
        /\ vm.globals = Prev.globals
C16_Witness ==
    /\ PrevCall /\ Callee(Prev).k = "Function"
    /\ Callee(Prev).arity = 1 /\ OpAt(Prev.loc).argc = 0
    /\ Prev.frames # <<>>
    /\ result.kind = "Runtime"

\* C17. Calling a non-callable value: Call(n) when the value at stack index
\* len - n - 1 is Null, a Num, a Str or a Bool fails with WrongCall carrying
\* that value; no frame is pushed and the stack is unchanged.
C17_WrongCall ==
    (PrevCall /\ Callee(Prev).k \in {"Null", "Num", "Str", "Bool"}) =>
        /\ pc = "done"
        /\ result = [kind |-> "Runtime",
                     err |-> [e |-> "Value",
                              cause |-> [e |-> "WrongCall", val |-> Callee(Prev)]]]
        /\ vm.frames = Prev.frames
        /\ vm.stack = Prev.stack
C17_Witness ==
    /\ PrevCall /\ Callee(Prev) = Str("a")
    /\ OpAt(Prev.loc).argc = 2
    /\ Len(Prev.stack) > 3
    /\ result.kind = "Runtime"

\* The opcodes that pop two operands and apply an operation that can fail.
Failing == {"Add", "Sub", "Mul", "Div", "Less", "Greater"}
FailedOp ==
    /\ result.kind = "Runtime"
    /\ hist # <<>>
    /\ OpAt(Prev.loc).op \in Failing
    /\ Len(Prev.stack) >= 2

\* C20. Error propagation stops execution: run executes one instruction at a
\* time and returns at the first instruction that returns an error.  The error
\* returned is that instruction's, no later instruction executes, ip has
\* already advanced past the failing instruction, and what the failing opcode
\* did to the stack is not rolled back: a failed Add has popped both operands.
C20_StopAtFirstError ==
    /\ [](result.kind = "Runtime" =>
            /\ pc = "done"
            /\ hist # <<>>
            /\ vm.loc = [chunk |-> Prev.loc.chunk, ip |-> Prev.loc.ip + 1]
            /\ FailedOp =>
                  /\ vm.stack = SubSeq(Prev.stack, 1, Len(Prev.stack) - 2)
                  /\ result.err =
                        [e |-> "Value",
                         cause |-> apply_op(OpAt(Prev.loc).op,
                                            Prev.stack[Len(Prev.stack) - 1],
                                            Last(Prev.stack)).err])
    /\ [][(result.kind = "none" /\ result'.kind = "Runtime") =>
             /\ Len(hist') = Len(hist) + 1
             /\ result'.err = step(vm).err
             /\ vm' = step(vm).vm]_vars
    /\ [][result.kind = "Runtime" => UNCHANGED <<vm, hist, stdout, result>>]_vars
C20_Witness ==
    /\ FailedOp
    /\ OpAt(Prev.loc).op = "Add"
    /\ Len(Prev.stack) >= 3
    /\ vm.stack = SubSeq(Prev.stack, 1, Len(Prev.stack) - 2)
    /\ ~is_at_end(vm.loc)

\* The names a line assigns by its text: `x = E`, `global x = E`, `fn x(...)`.
Assigns(toks) ==
    {toks[i].name : i \in {k \in 1 .. Len(toks) - 1 :
                              toks[k].ttype = "Identifier" /\ toks[k + 1].ttype = "Equal"}}
    \cup {toks[i + 1].name : i \in {k \in 1 .. Len(toks) - 1 :
                                      toks[k].ttype = "Function"
                                      /\ toks[k + 1].ttype = "Identifier"}}
\* The line under evaluation; the global `name` is bound and this step binds
\* it to another value or to none.
Line == input.lines[input.read]
Rebinds(name) ==
    /\ name \in DOMAIN vm.globals
    /\ name \in DOMAIN vm'.globals => vm'.globals[name] # vm.globals[name]

\* C18. REPL persistence of globals: across any sequence of REPL evaluations,
\* also those that end in a compile or runtime error, every earlier global
\* binding is still there with the same value unless a later evaluation
\* explicitly reassigned that name (its line assigns the name, or a function it
\* calls does); change_chunk replaces only the code cursor (chunk, ip = 0) and
\* leaves the globals, the stack, the frames and the return register as they
\* are.
C18_GlobalsPersist ==
    /\ [][\A name \in DOMAIN vm.globals : Rebinds(name) =>
             /\ name \in DOMAIN vm'.globals
             /\ pc = "run"
             /\ ~is_at_end(vm.loc)
             /\ OpAt(vm.loc) = SetGlobal(name)
             /\ (vm.frames # <<>> \/ name \in Assigns(Line))]_vars
    /\ [][(pc = "read" /\ pc' = "run") =>
             vm' = [vm EXCEPT !.loc = [chunk |-> vm'.loc.chunk, ip |-> 0]]]_vars
    /\ [][(pc = "read" /\ pc' # "run") => vm' = vm]_vars

\* C19. A REPL line that fails to compile leaves nothing behind: the
\* instructions already emitted for it are discarded, so the chunk of the next
\* line that compiles consists of that line's instructions only, and nothing of
\* the failed line is ever executed.
C19_FailedLineDiscarded ==
    [][(pc = "read" /\ pc' = "run") =>
          vm'.loc.chunk =
              declaration(Feed([compiler EXCEPT !.instrs = <<>>, !.marks = <<>>],
                               input'.lines[input'.read])).instrs]_vars

\* The longest jump the construct needs: over the body and the jump to the end
\* for if, from the backward Jump to the condition for while, over the right
\* operand for and, or.
Distance(c) ==
    CASE c.kind = "if" -> c.n + 2
      [] c.kind = "while" -> c.n + 5
      [] OTHER -> c.n + 1

\* C21. A jump whose distance does not fit the signed 16-bit operand (the
\* forward jumps of if, and, or, while and the backward jump of while) makes
\* the compilation fail by returning the error Conversion: it neither panics
\* nor emits a truncated or wrapped offset.
C21_JumpConversion ==
    (pc = "done" /\ Distance(input) > I16Max) =>
        /\ result.kind = "Compilation"
        /\ result.err.e = "Conversion"

\* The `let`s of block n itself: those in its code that are in no block
\* inside it.
Inside(n) ==
    {b \in Notes("block") : /\ b # n /\ b.chunk = n.chunk
                            /\ n.m.lo <= b.m.lo /\ b.m.hi <= n.m.save}
DirectLets(n) ==
    {l \in Notes("let") : /\ l.chunk = n.chunk
                          /\ n.m.lo <= l.m.at /\ l.m.at < n.m.save
                          /\ \A b \in Inside(n) : ~(b.m.lo <= l.m.at /\ l.m.at < b.m.hi)}

\* C22. Value-preserving scope close: a non-empty block `{ d1 ... dk }` that
\* declares m locals leaves, on exit, a stack whose depth is the depth at block
\* entry plus one and whose top is the value of dk, with the m local slots
\* removed (SaveReturn, exactly m Pops, RestoreReturn); and the compiler's
\* locals table is truncated back to its length at block entry.
C22_ScopeClose ==
    \A n \in Notes("block") :
        /\ n.chunk[n.m.save + 1] = Op("SaveReturn")
        /\ \A i \in 1 .. Cardinality(DirectLets(n)) : n.chunk[n.m.save + 1 + i] = Op("Pop")
        /\ n.m.hi = n.m.save + Cardinality(DirectLets(n)) + 2
        /\ n.chunk[n.m.hi] = Op("RestoreReturn")
        /\ n.m.restored
        /\ Left(n, n.m.lo) =>
              /\ Len(vm.stack) = Len(Entry(n.m.lo).stack) + 1
              /\ Visits(n.m.save) # {}
              /\ Entry(n.m.save).stack # <<>>
              /\ Last(vm.stack) = Last(Entry(n.m.save).stack)
              /\ Len(vm.stack) = Len(Entry(n.m.save).stack) - Cardinality(DirectLets(n))

\* The frame base an instruction is executed with, and the Call that pushed
\* the frame it runs in.
FrameBase(h) == IF h.frames = <<>> THEN 0 ELSE Last(h.frames).stack_depth
CallOfFrame(h) ==
    hist[Max({j \in 1 .. Len(hist) :
                 /\ OpAt(hist[j].loc).op = "Call"
                 /\ j < Len(hist)
                 /\ hist[j + 1].frames = h.frames
                 /\ hist[j].frames = Front(h.frames)})]

\* C23. GetLocal(i) pushes a copy of stack[frame_base + i] and SetLocal(i)
\* overwrites stack[frame_base + i] with a copy of the top of the stack;
\* frame_base is 0 when the frame stack is empty and otherwise the stack depth
\* saved in the most recently pushed frame, the index of the callee value.  No
\* other stack slot and no global is modified.
C23_LocalAccess ==
    /\ (PrevIs("GetLocal") /\ Alive) =>
          /\ FrameBase(Prev) + OpAt(Prev.loc).i < Len(Prev.stack)
          /\ vm.stack = Append(Prev.stack, Prev.stack[FrameBase(Prev) + OpAt(Prev.loc).i + 1])
          /\ vm.globals = Prev.globals
    /\ (PrevIs("SetLocal") /\ Alive) =>
          /\ FrameBase(Prev) + OpAt(Prev.loc).i < Len(Prev.stack)
          /\ vm.stack = [Prev.stack EXCEPT ![FrameBase(Prev) + OpAt(Prev.loc).i + 1] =
                                               Last(Prev.stack)]
          /\ vm.globals = Prev.globals
    /\ ((PrevIs("GetLocal") \/ PrevIs("SetLocal")) /\ Prev.frames # <<>>) =>
          /\ FrameBase(Prev) =
                Len(CallOfFrame(Prev).stack) - OpAt(CallOfFrame(Prev).loc).argc - 1
          /\ Callee(CallOfFrame(Prev)).k = "Function"
          /\ Callee(CallOfFrame(Prev)).chunk = Prev.loc.chunk
C23_Witness ==
    /\ PrevIs("SetLocal") /\ Alive
    /\ Prev.frames # <<>>
    /\ FrameBase(Prev) >= 2
    /\ OpAt(Prev.loc).i = 1
    /\ Prev.stack[FrameBase(Prev) + 2] # Last(Prev.stack)
    /\ \E j \in 1 .. Len(hist) - 1 : OpAt(hist[j].loc).op = "GetLocal" /\ hist[j].frames # <<>>

\* The chunks of the run: the one loaded, those executed, those with notes.
Chunks ==
    ({vm.loc.chunk} \cup {hist[j].loc.chunk : j \in 1 .. Len(hist)})
    \cup {n.chunk : n \in Range(compiler.notes)}
LocalOps == {"GetLocal", "SetLocal"}

\* C24. A fresh VM starts with exactly one Null on the evaluation stack, an
\* empty frame stack, an empty globals map and an empty return register (the
\* libraries are defined after that); and the compiler never emits GetLocal(0)
\* or SetLocal(0) for a source identifier, because slot 0 is reserved under an
\* unnameable entry in the top-level compiler and in every function-body
\* compiler.
C24_ReservedSlot ==
    /\ VirtualMachine_new(vm.loc.chunk) =
          [globals |-> EmptyMap, stack |-> <<Null>>, ret_channel |-> <<>>,
           frames |-> <<>>, loc |-> [chunk |-> vm.loc.chunk, ip |-> 0]]
    /\ (pc = "run" /\ hist = <<>>) =>
          /\ vm.stack = <<Null>>
          /\ vm.frames = <<>>
          /\ vm.ret_channel = <<>>
          /\ vm.globals = Libraries
    /\ \A c \in Chunks : \A i \in 1 .. Len(c) : c[i].op \in LocalOps => c[i].i >= 1
    /\ \A n \in Uses : n.chunk[n.m.at + 1].op \in LocalOps => n.chunk[n.m.at + 1].i >= 1
C24_Witness ==
    /\ PrevIs("GetLocal") /\ Alive
    /\ Prev.frames # <<>>
    /\ OpAt(Prev.loc).i = 1
    /\ \E j \in 1 .. Len(hist) - 1 :
          /\ hist[j].frames = <<>>
          /\ OpAt(hist[j].loc) = GetLocal(1)
          /\ \E n \in Notes("var") : n.chunk = hist[j].loc.chunk /\ n.m.at = hist[j].loc.ip

\* C25. `fn name(params) body` compiles to a Push of the Function value
\* immediately followed by SetGlobal(name): after execution the global `name`
\* is bound to that function (so the body can call itself by name) and the
\* function value remains on the stack as the single result of the expression;
\* an anonymous `fn` emits only the Push.
C25_NamedFn ==
    \A n \in Notes("fn") :
        /\ n.chunk[n.m.at + 1].op = "Push"
        /\ n.chunk[n.m.at + 1].v.k = "Function"
        /\ n.chunk[n.m.at + 1].v.name = n.m.fname
        /\ IF n.m.fname # <<>>
           THEN /\ Len(n.chunk) >= n.m.at + 2
                /\ n.chunk[n.m.at + 2] = SetGlobal(n.m.fname[1])
                /\ n.m.hi = n.m.at + 2
           ELSE n.m.hi = n.m.at + 1
        /\ Left(n, n.m.at) =>
              /\ vm.stack = Append(Entry(n.m.at).stack, n.chunk[n.m.at + 1].v)
              /\ n.m.fname # <<>> =>
                    /\ n.m.fname[1] \in DOMAIN vm.globals
                    /\ vm.globals[n.m.fname[1]] = n.chunk[n.m.at + 1].v
C25_Witness ==
    /\ Finished
    /\ \E n \in Notes("fn") : \E j \in 1 .. Len(hist) :
          /\ n.m.fname = <<"f">>
          /\ OpAt(hist[j].loc).op = "GetGlobal"
          /\ OpAt(hist[j].loc).name = "f"
          /\ hist[j].loc.chunk = n.chunk[n.m.at + 1].v.chunk
          /\ hist[j].frames # <<>>
          /\ hist[j].globals["f"] = n.chunk[n.m.at + 1].v

\* The parentheses of the input in balance over the tokens i .. j.
RECURSIVE Balance(_, _, _)
Balance(toks, i, j) ==
    IF j < i THEN 0
    ELSE Balance(toks, i, j - 1)
         + (CASE toks[j].ttype = "LeftParen" -> 1
              [] toks[j].ttype = "RightParen" -> -1
              [] OTHER -> 0)
Groups == {n.m : n \in Notes("group")} \cup {m \in Range(compiler.marks) : m.kind = "group"}

\* C26. A parenthesised expression `( E )` consumes exactly the token `(`, the
\* tokens of E and the token `)`, and emits exactly the instructions of E: the
\* token after `)` is left for the enclosing rule, so `(1 + 2) * 3` compiles
\* and evaluates to Num(9), and `(1)` as the last thing in the input compiles
\* without error.
C26_Grouping ==
    input.fam = "group" =>
        /\ pc # "start" => result.kind # "Compilation"
        /\ Finished => Last(vm.stack) = input.expect
        /\ \A m \in Groups :
              /\ input.toks[m.open].ttype = "LeftParen"
              /\ input.toks[m.close].ttype = "RightParen"
              /\ Balance(input.toks, m.open, m.close) = 0
              /\ m.next = m.close


\* The two operands an instruction that pops two was fetched with.
OperandA(h) == h.stack[Len(h.stack) - 1]
OperandB(h) == Last(h.stack)
PrevBinary(op) == PrevIs(op) /\ Len(Prev.stack) >= 2

\* C27. Null compares equal to itself and to nothing else: Equal applied to
\* Null and Null pushes Bool(true), so `null == null` is true and `null != null`
\* is false; Equal applied to Null and a value that is not Null pushes
\* Bool(false).
C27_NullEquality ==
    (PrevBinary("Equal") /\ "Null" \in {OperandA(Prev).k, OperandB(Prev).k}) =>
        /\ result.kind \in {"none", "Ok"}
        /\ vm.stack = Append(SubSeq(Prev.stack, 1, Len(Prev.stack) - 2),
                             Bool(OperandA(Prev).k = "Null" /\ OperandB(Prev).k = "Null"))

\* Both operands are Num or both are Str.
Ordered(a, b) == (a.k = "Num" /\ b.k = "Num") \/ (a.k = "Str" /\ b.k = "Str")

\* C28. The ordering operators `<`, `<=`, `>`, `>=` (Less or Greater, with Not
\* after it for the negated ones) succeed only when both operands are Num or
\* both are Str: Less and Greater then pop both and push a Bool.  For every
\* other pair of operands, Bool with Bool and mixed types included, the
\* instruction fails with the value error Comparison.
C28_Ordering ==
    (PrevBinary("Less") \/ PrevBinary("Greater")) =>
        IF Ordered(OperandA(Prev), OperandB(Prev))
        THEN /\ result.kind \in {"none", "Ok"}
             /\ Len(vm.stack) = Len(Prev.stack) - 1
             /\ Last(vm.stack).k = "Bool"
        ELSE /\ result.kind = "Runtime"
             /\ result.err.e = "Value"
             /\ result.err.cause.e = "Comparison"

\* The symbol the error Binary carries for an arithmetic opcode.
Symbol(op) == CASE op = "Add" -> "+" [] op = "Sub" -> "-" [] op = "Mul" -> "*" [] op = "Div" -> "/"
BothNum(h) == OperandA(h).k = "Num" /\ OperandB(h).k = "Num"
BothStr(h) == OperandA(h).k = "Str" /\ OperandB(h).k = "Str"
\* The instruction executed last popped its two operands and pushed v.
Pushed(v) ==
    /\ result.kind \in {"none", "Ok"}
    /\ vm.stack = Append(SubSeq(Prev.stack, 1, Len(Prev.stack) - 2), v)
\* The instruction executed last failed with the value error Binary of its symbol.
BinaryError ==
    /\ result.kind = "Runtime"
    /\ result.err.e = "Value"
    /\ result.err.cause = [e |-> "Binary", op |-> Symbol(OpAt(Prev.loc).op),
                           a |-> OperandA(Prev), b |-> OperandB(Prev)]

\* C29. Add yields the sum, a Num, for Num + Num and the concatenation for
\* Str + Str, and fails with Binary("+") for every other pair of operands
\* (`"foo" + 3`).  Sub, Mul and Div yield a Num when both operands are Num and
\* fail with Binary carrying their operator otherwise.
C29_Arithmetic ==
    /\ PrevBinary("Add") =>
           CASE BothNum(Prev) -> Pushed(Num(OperandA(Prev).n + OperandB(Prev).n))
             [] BothStr(Prev) -> Pushed(Str(OperandA(Prev).s \o OperandB(Prev).s))
             [] OTHER -> BinaryError
    /\ PrevBinary("Sub") =>
           IF BothNum(Prev) THEN Pushed(Num(OperandA(Prev).n - OperandB(Prev).n)) ELSE BinaryError
    /\ PrevBinary("Mul") =>
           IF BothNum(Prev) THEN Pushed(Num(OperandA(Prev).n * OperandB(Prev).n)) ELSE BinaryError
    /\ PrevBinary("Div") =>
           IF BothNum(Prev)
           THEN /\ result.kind \in {"none", "Ok"}
                /\ Len(vm.stack) = Len(Prev.stack) - 1
                /\ Last(vm.stack).k = "Num"
           ELSE BinaryError
\* `"a" + 1` has failed with Binary("+"): Add popped Str("a") and Num(1).
C29_Witness ==
    /\ PrevBinary("Add")
    /\ OperandA(Prev) = Str("a") /\ OperandB(Prev) = Num(1)
    /\ BinaryError
    /\ input.toks = <<S("a"), Tok("Plus"), N(1)>>

\* The text that next reads first, after the white space it skips.
Ahead == SubSeq(stream.unread, LeadingWhile(stream.unread, is_whitespace) + 1, Len(stream.unread))
AtComment == pc = "scan" /\ Len(Ahead) >= 2 /\ Ahead[1] = "/" /\ Ahead[2] = "*"
\* The offsets in Ahead, after the opening `/*`, at which a closing `*/` begins.
Closings == {i \in 3 .. Len(Ahead) - 1 : Ahead[i] = "*" /\ Ahead[i + 1] = "/"}
\* The stream that has read Ahead up to the end of the first closing `*/`.
AfterComment ==
    [unread |-> SubSeq(Ahead, Min(Closings) + 2, Len(Ahead)),
     pos |-> stream.pos + (Len(stream.unread) - Len(Ahead)) + Min(Closings) + 1]

\* C30. A block comment `/* ... */` is skipped entirely: next, called at the
\* opening `/*` of a comment that has a closing `*/` after it, returns what it
\* returns when called just after that `*/` (the token after the comment, or the
\* end of the stream) and reports no error for the comment.  It returns
\* UnmatchedComment only when there is no closing `*/` after the opening `/*`.
C30_BlockComment ==
    [][AtComment =>
          IF Closings # {}
          THEN /\ stream' = TokenStream_next(AfterComment).ts
               /\ scanned' = Append(scanned, TokenStream_next(AfterComment).item)
          ELSE /\ Last(scanned').some /\ ~Last(scanned').ok
               /\ Last(scanned').kind = "UnmatchedComment"]_vars

\* The instruction executed last was a GetLocal or SetLocal that panicked on
\* a slot beyond the stack.
LocalPanic ==
    /\ result.kind = "Panic"
    /\ hist # <<>>
    /\ OpAt(Prev.loc).op \in {"GetLocal", "SetLocal"}

\* C31. REPL synchronisation: when the REPL is about to read a line, after
\* any sequence of earlier lines (successful, failed at compile time or failed
\* at run time), the compiler's locals table is as long as the VM's evaluation
\* stack is deep, so GetLocal and SetLocal of a local declared on an earlier
\* line address an existing slot and never panic on an index out of range.
C31_ReplSync ==
    /\ pc = "read" => Len(compiler.locals) = Len(vm.stack)
    /\ ~LocalPanic

\* C32. When the VM starts running the chunk of a new REPL line its frame
\* stack is empty: the frames of calls that were in progress when an earlier
\* line failed inside a function body are not left behind, so GetLocal(i) and
\* SetLocal(i) of the new line address slot i (frame base 0).
C32_FramesEmptyAtStart ==
    [][(pc = "read" /\ pc' = "run") =>
          /\ vm'.frames = <<>>
          /\ \A i \in 0 .. Len(vm'.stack) : local_idx(vm', i) = i]_vars

\* C33. The startup sentinel is never removed: while the VM runs a chunk the
\* compiler produced, and between the evaluations of the REPL, the evaluation
\* stack is never empty and its index 0 holds the reserved Null, so no Pop of
\* compiled code fails with EmptyStack.
C33_SentinelKept ==
    /\ vm.stack # <<>>
    /\ vm.stack[1] = Null
    /\ ~(result.kind = "Runtime" /\ result.err = EmptyStack)

\* A chunk and the chunks of the functions it pushes, nested ones included.
RECURSIVE Nested(_)
Nested(c) ==
    {c} \cup UNION {Nested(c[i].v.chunk) :
                       i \in {j \in 1 .. Len(c) : c[j].op = "Push" /\ c[j].v.k = "Function"}}
\* Compiler::program has returned Ok; the chunk it produced.
Compiled == pc = "run" \/ (pc = "done" /\ (hist # <<>> \/ result.kind = "Ok"))
Top == IF hist = <<>> THEN vm.loc.chunk ELSE hist[1].loc.chunk

\* C34. When the compilation returns Ok on a compiler with no buffered
\* instructions, every Temp placeholder that stub_jump emitted has been
\* overwritten by patch_jump with a Jump, JumpIfFalse or JumpIfTrue: the chunk
\* and every nested function chunk contain no Temp, and the VM never panics
\* on a Temp instruction.
C34_NoTemp ==
    /\ Compiled => \A c \in Nested(Top) : \A i \in 1 .. Len(c) : c[i].op # "Temp"
    /\ ~(result.kind = "Panic" /\ hist # <<>> /\ OpAt(Prev.loc).op = "Temp")
\* The run has taken a patched jump inside a function body and has finished.
C34_Witness ==
    /\ Finished
    /\ \E c \in Nested(Top) \ {Top} : \E i \in 1 .. Len(c) : c[i].op \in JumpOps
    /\ \E j \in 1 .. Len(hist) : hist[j].frames # <<>> /\ OpAt(hist[j].loc).op \in JumpOps

\* The opcode of entry j of the history.
Executed(j) == OpAt(hist[j].loc).op
\* Entry j is a RestoreReturn that a SaveReturn precedes with only Pops between.
Paired(j) ==
    \E k \in 1 .. j - 1 :
        /\ Executed(k) = "SaveReturn"
        /\ \A l \in k + 1 .. j - 1 : Executed(l) = "Pop"

Quiet ==
    /\ \A i \in 1 .. Len(input.toks) : input.toks[i].ttype # "While"
    /\ \A c \in Nested(Top) : \A i \in 1 .. Len(c) : c[i].op # "Call"

\* C36. Running a chunk compiled from a program with no `while` and no call
\* always terminates: every jump emitted for if, and, or has a non-negative
\* operand, so the instruction pointer strictly increases at every step, in
\* the same chunk, until it equals the chunk length or an instruction returns
\* an error; then run returns.
C36_Terminates ==
    /\ (pc = "run" /\ Quiet) ~> (pc = "done")
    /\ []((Compiled /\ Quiet) =>
             \A i \in 1 .. Len(Top) : Top[i].op \in JumpOps => Top[i].d >= 0)
    /\ [][(pc = "run" /\ Quiet /\ hist' # hist) =>
             /\ vm'.loc.chunk = vm.loc.chunk
             /\ vm'.loc.ip > vm.loc.ip
             /\ vm'.loc.ip <= Len(vm.loc.chunk)]_vars
\* A program with an if and no call has skipped its then branch and finished.
C36_Witness ==
    /\ Finished /\ Quiet
    /\ \E i \in 1 .. Len(input.toks) : input.toks[i].ttype = "If"
    /\ \E j \in 1 .. Len(hist) - 1 :
          /\ Executed(j) = "JumpIfFalse"
          /\ hist[j + 1].loc.ip > hist[j].loc.ip + 1

\* The line read last, once run_line has compiled it without an error.
LineCompiled ==
    /\ input.read > 0
    /\ pc = "run" \/ (pc \in {"read", "done"} /\ result.kind \in {"Ok", "Runtime"})
ThisLine == input.lines[input.read]

\* C37. run_line compiles and executes every declaration of the REPL input
\* line, as Compiler::program does for a file: when the line has compiled, all
\* of its tokens have been consumed, and the value run_line returns is that of
\* the last declaration of the line (2 for the line `1 2`).
C37_WholeLine ==
    /\ LineCompiled => compiler.pos = Len(compiler.toks)
    /\ (LineCompiled /\ pc = "read" /\ result.kind = "Ok" /\ ThisLine = <<N(1), N(2)>>) =>
           result.val = Num(2)

\* C38. In the tree-walking evaluator, once a `return` statement has executed
\* inside a function body, nothing more of the body runs: while the return
\* value is pending the evaluator only skips statements and leaves blocks (no
\* loop condition or other expression is evaluated again), and the value is
\* taken only by the call whose body contained the `return`.
ReturnPending == pc = "eval" /\ env.ret # <<>> /\ env.ctl # <<>>
C38_ReturnUnwinds ==
    ReturnPending =>
        /\ TopTask(env).t \in {"statement", "leave", "take", "main"}
        /\ TopTask(env).t = "take" => Depth(env) = env.owner

\* C39. Every scanner turns the word `true` into the literal Bool(true) and the
\* word `false` into the literal Bool(false): keyword of scan.rs does, and
\* whenever the Lexer of token/lexer.rs is at one of these words (after white
\* space, and followed by a character that ends the word), the token that
\* next returns is that literal.
WordAhead(cs, w) ==
    LET rest == SubSeq(cs, LeadingWhile(cs, is_whitespace) + 1, Len(cs)) IN
    /\ Len(rest) > Len(w)
    /\ SubSeq(rest, 1, Len(w)) = w
    /\ ~(is_alphanumeric(rest[Len(w) + 1]) \/ rest[Len(w) + 1] = "_")
LexedBool(b) == Last(scanned').opt = "Some" /\ Last(scanned').tok.kind = Literal(Bool(b))
C39_BoolKeywords ==
    /\ keyword("true") = Literal(Bool(TRUE))
    /\ keyword("false") = Literal(Bool(FALSE))
    /\ [][(pc = "lex" /\ scanned' # scanned) =>
             /\ WordAhead(lexer.unread, <<"t", "r", "u", "e">>) => LexedBool(TRUE)
             /\ WordAhead(lexer.unread, <<"f", "a", "l", "s", "e">>) => LexedBool(FALSE)]_vars
====
